---- MODULE Spec2Model ----
(***************************************************************************)
(* Model of the batch task manager (BatchTask, createTaskSSEStream,        *)
(* runInBatches) and of the streaming transcoder                           *)
(* (createOpenAiStreamFromGrokNdjson, TagFilter) of grok2api_cf.           *)
(***************************************************************************)
EXTENDS Integers, Sequences, FiniteSets, TLC

\* ------------------------------------------------------------------------
\* Bounds of the model
\* ------------------------------------------------------------------------
MaxEvents == 3
MaxItems == 3
MaxConc == 2
MaxReads == 3
MaxLines == 2
MaxFrames == 3
NumStreams == 1
MaxPieces == 4
MaxTasks == 2
MaxTimers == 1
MaxLayers == 3
MaxNow == 1
MaxLogs == 2
MaxChars == 4
NumCallers == 2

\* ------------------------------------------------------------------------
\* Values
\* ------------------------------------------------------------------------
Null == "null"
Undefined == "undefined"
\* finalEvent = null
NullEvent == [type |-> Null]

Streams == 1 .. NumStreams
\* the callback a caller hands to subscribe(callback) itself
Subs == {NumStreams + 1}
\* a callback that throws whenever it is called
Throwers == {NumStreams + 2}
AllSubs == Subs \cup Throwers
\* the worker promises runInBatches may create
WorkerIds == 1 .. (IF MaxConc > MaxItems THEN MaxConc ELSE MaxItems)

\* the elements of items: the i-th is its own value, or undefined
ItemNames == <<"a", "b", "c", "d", "e", "f">>
ItemLists(n) ==
  UNION {{[i \in 1 .. k |-> IF i \in U THEN Undefined ELSE ItemNames[i]] :
            U \in SUBSET (1 .. k)} : k \in 0 .. n}
\* createTask(total): a total the constructor clamps to 0, and a positive one
TotalArgs == {-1, 2}
WarningArgs == {Undefined, "w"}
ResultArgs == {"r"}
TerminalTypes == {"done", "error", "cancelled"}

Min(a, b) == IF a < b THEN a ELSE b
Max(a, b) == IF a > b THEN a ELSE b

VARIABLES
  \* BatchTask fields
  total, processed, ok, fail, status, warning, result, error, cancelled,
  finalEvent, callbacks,
  \* createTaskSSEStream: one controller per bridge stream
  streamState, written, openedAt,
  \* plain subscribers (subscribe(cb)): what each callback was handed
  received,
  \* every event handed to _publish, in order
  published,
  \* whether an exception of a callback has left _publish
  escaped,
  \* runInBatches
  items, concurrency, queue, workers, poolState, started

taskVars == <<total, processed, ok, fail, status, warning, result, error,
              cancelled, finalEvent, callbacks>>
bridgeVars == <<streamState, written, openedAt>>
poolVars == <<items, concurrency, queue, workers, poolState, started>>
batchVars == <<taskVars, bridgeVars, received, published, escaped, poolVars>>

VARIABLES
  \* opts.settings, whether grokResp.body is there, and the kind of response
  \* the upstream sends ("text", "tagged", "video", "image", "stalling")
  settings, hasBody, upstream,
  \* where start(controller) stands: "start", "read" (await readWithTimeout),
  \* "lines" (the loop over the lines of the buffer), "loop" (top of while),
  \* "onFinish" (await opts.onFinish), "returned", "rejected"
  pc,
  \* the closure's variables (firstReceived, lastChunkTime, isThinking, ...)
  loc,
  \* what was enqueued on the controller, in order
  out,
  \* the controller ("open", "closed") and the reader lock ("none", "held", "released")
  controller, readerLock,
  \* the statuses handed to opts.onFinish, in order
  onFinishCalls,
  \* the clock (Date.now() - startTime), the timeout of the pending read
  clock, perRead,
  \* complete lines of the buffer not yet handled; reads and lines so far
  linesLeft, reads, lineCount,
  \* the parsed lines the loop body was run on, in order
  handled,
  \* the terminal branches taken, in order
  paths,
  \* whether the pending onFinish was awaited inside the catch block
  inCatch,
  \* the values the catch block of start(controller) was entered with
  caught

streamVars == <<settings, hasBody, upstream, pc, loc, out, controller, readerLock,
                onFinishCalls, clock, perRead, linesLeft, reads, lineCount, handled,
                paths, inCatch, caught>>

VARIABLES
  \* a TagFilter used on its own: its tags, the text fed to it and the part
  \* not yet passed to filter
  fTags, fText, fRest,
  \* the filter's fields (inFilterTag, tagBuffer, pendingPrefix)
  tf,
  \* the concatenation of what filter returned, and of what flush returned
  fOut, fFlushed,
  \* whether filter is the only method called so far
  fOnlyFilter,
  \* the number of filter calls so far
  fCalls

filterVars == <<fTags, fText, fRest, tf, fOut, fFlushed, fOnlyFilter, fCalls>>

VARIABLES
  \* _TASKS: the ids that have an entry (the value is the task of that id)
  registry,
  \* how many tasks createTask has made, and the pending setTimeout callbacks
  \* of expireTask per task id
  created, timers,
  \* the ids for which a callback of expireTask has run
  fired

registryVars == <<registry, created, timers, fired>>

VARIABLES
  \* nowMs(), and the last call made on the database with its argument
  dbNow, dbCall,
  \* the rows of the tables settings, token_refresh_progress and request_logs
  settingsTable, progressRow, requestLogs,
  \* the calls on the database that are between two of their awaits
  inflight

dbVars == <<dbNow, dbCall, settingsTable, progressRow, requestLogs, inflight>>

vars == <<batchVars, streamVars, filterVars, registryVars, dbVars>>

\* ------------------------------------------------------------------------
\* Strings are sequences of characters (one-character strings); the fixed
\* texts the transcoder inserts are single symbols of such a sequence.
\* ------------------------------------------------------------------------
StartsWith(str, p) == Len(p) <= Len(str) /\ SubSeq(str, 1, Len(p)) = p
EndsWith(str, p) ==
  Len(p) <= Len(str) /\ SubSeq(str, Len(str) - Len(p) + 1, Len(str)) = p
Includes(str, p) ==
  \E i \in 0 .. Len(str) : i + Len(p) <= Len(str) /\ SubSeq(str, i + 1, i + Len(p)) = p

\* ------------------------------------------------------------------------
\* TagFilter
\* ------------------------------------------------------------------------
\* new TagFilter(filterTags)
NewTagFilter == [inFilterTag |-> FALSE, tagBuffer |-> <<>>, pendingPrefix |-> <<>>]

\* no TagFilter in use on its own
FilterIdle ==
  /\ fTags = <<>> /\ fText = <<>> /\ fRest = <<>>
  /\ tf = NewTagFilter
  /\ fOut = <<>> /\ fFlushed = <<>>
  /\ fOnlyFilter = TRUE
  /\ fCalls = 0

OpenTag(tag) == <<"<">> \o tag
CloseTag(tag) == <<"<", "/">> \o tag \o <<">">>

\* one pass of the loop that leaves pendingPrefix as it is on a full match
FilterChar_keepsPending(tags, f, res, char) ==
  IF f.pendingPrefix # <<>> THEN
    LET pending == Append(f.pendingPrefix, char)
        tagIdx == 1 .. Len(tags)
        anyMatch == \E k \in tagIdx : StartsWith(OpenTag(tags[k]), pending)
        fullMatch == \E k \in tagIdx : StartsWith(pending, OpenTag(tags[k]))
    IN IF fullMatch
         THEN [f |-> [inFilterTag |-> TRUE, tagBuffer |-> pending, pendingPrefix |-> pending],
               res |-> res]
       ELSE IF ~anyMatch
         THEN [f |-> [f EXCEPT !.pendingPrefix = <<>>], res |-> res \o pending]
       ELSE [f |-> [f EXCEPT !.pendingPrefix = pending], res |-> res]
  ELSE IF f.inFilterTag THEN
    LET buf == Append(f.tagBuffer, char)
        closes ==
          char = ">" /\ (\/ EndsWith(buf, <<"/", ">">>)
                         \/ \E k \in 1 .. Len(tags) : Includes(buf, CloseTag(tags[k])))
    IN IF closes
         THEN [f |-> [f EXCEPT !.inFilterTag = FALSE, !.tagBuffer = <<>>], res |-> res]
         ELSE [f |-> [f EXCEPT !.tagBuffer = buf], res |-> res]
  ELSE IF char = "<" THEN [f |-> [f EXCEPT !.pendingPrefix = <<"<">>], res |-> res]
  ELSE [f |-> f, res |-> Append(res, char)]

\* one pass of the while loop of filter: f is the filter, res the result so far
FilterChar(tags, f, res, char) ==
  IF f.pendingPrefix # <<>> THEN
    LET pending == Append(f.pendingPrefix, char)
        tagIdx == 1 .. Len(tags)
        anyMatch == \E k \in tagIdx : StartsWith(OpenTag(tags[k]), pending)
        fullMatch == \E k \in tagIdx : StartsWith(pending, OpenTag(tags[k]))
    IN IF fullMatch
         THEN [f |-> [inFilterTag |-> TRUE, tagBuffer |-> pending, pendingPrefix |-> <<>>],
               res |-> res]
       ELSE IF ~anyMatch
         THEN [f |-> [f EXCEPT !.pendingPrefix = <<>>], res |-> res \o pending]
       ELSE [f |-> [f EXCEPT !.pendingPrefix = pending], res |-> res]
  ELSE IF f.inFilterTag THEN
    LET buf == Append(f.tagBuffer, char)
        closes ==
          char = ">" /\ (\/ EndsWith(buf, <<"/", ">">>)
                         \/ \E k \in 1 .. Len(tags) : Includes(buf, CloseTag(tags[k])))
    IN IF closes
         THEN [f |-> [f EXCEPT !.inFilterTag = FALSE, !.tagBuffer = <<>>], res |-> res]
         ELSE [f |-> [f EXCEPT !.tagBuffer = buf], res |-> res]
  ELSE IF char = "<" THEN [f |-> [f EXCEPT !.pendingPrefix = <<"<">>], res |-> res]
  ELSE [f |-> f, res |-> Append(res, char)]

RECURSIVE FilterFrom(_, _, _, _, _)
FilterFrom(tags, f, res, token, i) ==
  IF i > Len(token) THEN [f |-> f, res |-> res]
  ELSE LET r == FilterChar(tags, f, res, token[i])
       IN FilterFrom(tags, r.f, r.res, token, i + 1)

\* filter(token) with pendingPrefix kept in a local of the call: every call
\* starts with none
TagFilter_filter_localPending(tags, f, token) ==
  IF Len(tags) = 0 THEN [f |-> f, res |-> token]
  ELSE FilterFrom(tags, [f EXCEPT !.pendingPrefix = <<>>], <<>>, token, 1)

\* filter(token): the filter afterwards (f) and the returned text (res)
TagFilter_filter(tags, f, token) ==
  IF Len(tags) = 0 THEN [f |-> f, res |-> token]
  ELSE FilterFrom(tags, f, <<>>, token, 1)

\* flush()
TagFilter_flush(f) == [f |-> [f EXCEPT !.pendingPrefix = <<>>], res |-> f.pendingPrefix]

\* reset()
TagFilter_reset(f) == NewTagFilter

\* ------------------------------------------------------------------------
\* createOpenAiStreamFromGrokNdjson
\* ------------------------------------------------------------------------
DefaultModel == "grok-4-mini-thinking-tahoe"

\* fixed texts
ThinkOpen == "<think>"
ThinkClose == "</think>"
NL == "\n"
ErrorPrefix == "Error: "
ProcessingErrorPrefix == "processing error: "
VideoProgressText == "video generated "
VideoHtml == "<video src=proxied>"
ImageMarkdown == "![Generated Image](proxied)"
SearchLine == "\n- [title](url \"preview\")"

\* makeChunk(id, created, model, content, finish_reason): an empty content
\* gives an empty delta
makeChunk(model, content, finish_reason) ==
  [kind |-> "chunk", model |-> model, content |-> content,
   finish_reason |-> finish_reason]

\* makeDone()
makeDone == [kind |-> "done", model |-> Null, content |-> <<>>, finish_reason |-> Null]

\* flushStop()
flushStop(o, l) == o \o <<makeChunk(l.currentModel, <<>>, "stop"), makeDone>>

\* the locals of start(controller) after const reader = body.getReader()
NewLocals ==
  [finalStatus |-> 200, lastChunkTime |-> 0, firstReceived |-> FALSE,
   currentModel |-> DefaultModel, isImage |-> FALSE, isVideo |-> FALSE,
   isThinking |-> FALSE, thinkingFinished |-> FALSE,
   videoProgressStarted |-> FALSE, lastVideoProgress |-> -1,
   buffer |-> "", tagFilter |-> NewTagFilter]

\* String.prototype.toLowerCase, on the letters the modelled strings are made of
LowerCase(c) ==
  CASE c = "A" -> "a" [] c = "E" -> "e" [] c = "H" -> "h" [] c = "M" -> "m"
    [] c = "P" -> "p" [] c = "R" -> "r" [] c = "S" -> "s" [] c = "T" -> "t"
    [] c = "N" -> "n" [] c = "W" -> "w"
    [] OTHER -> c
toLowerCase(str) == [i \in 1 .. Len(str) |-> LowerCase(str[i])]

\* a thrown value: an Error with its name and message, or (isError FALSE) a
\* plain value; String(e) is "name: message" for an Error
ErrorValue(name, message) == [isError |-> TRUE, name |-> name, message |-> message]
StringOf(e) == IF e.isError THEN e.name \o <<":", " ">> \o e.message ELSE e.message

\* new StreamIdleTimeoutError(idleSeconds)
StreamIdleTimeoutError ==
  ErrorValue(<<"S", "t", "r", "e", "a", "m", "IdleTimeoutError">>,
             <<"S", "t", "r", "e", "a", "m", " idle timeout after ", "N", "s">>)
\* what reading a property of null throws
NullTypeError == ErrorValue(<<"TypeError">>, <<"Cannot read properties of null">>)

\* isHttp2StreamError(e)
isHttp2StreamError(e) ==
  LET errStr == toLowerCase(StringOf(e))
  IN \/ Includes(errStr, <<"h", "t", "t", "p", "/", "2">>)
     \/ Includes(errStr, <<"c", "u", "r", "l", ":", " ", "(", "9", "2", ")">>)
     \/ Includes(errStr, <<"s", "t", "r", "e", "a", "m">>)

\* The video progress line
VideoMessage(l, progress) ==
  IF ~l.videoProgressStarted
    THEN <<ThinkOpen, VideoProgressText, ToString(progress), "%", NL>>
  ELSE IF progress < 100
    THEN <<VideoProgressText, ToString(progress), "%", NL>>
  ELSE <<VideoProgressText, ToString(progress), "%", ThinkClose, NL>>

\* the video branch without isVideo = true
HandleVideo_keepsTextIdle(l, o, fr) ==
  LET l1 == l
      shows == fr.progress > l1.lastVideoProgress
      l2 == IF shows THEN [l1 EXCEPT !.lastVideoProgress = fr.progress] ELSE l1
      l3 == IF shows /\ settings.show_thinking
              THEN [l2 EXCEPT !.videoProgressStarted = TRUE] ELSE l2
      o1 == IF shows /\ settings.show_thinking
              THEN Append(o, makeChunk(l.currentModel, VideoMessage(l, fr.progress), Null))
              ELSE o
      o2 == IF fr.videoUrl # ""
              THEN Append(o1, makeChunk(l.currentModel, <<VideoHtml>>, Null))
              ELSE o1
  IN [loc |-> l3, out |-> o2, term |-> "none"]

\* streamingVideoGenerationResponse branch
HandleVideo(l, o, fr) ==
  LET l1 == [l EXCEPT !.isVideo = TRUE]
      shows == fr.progress > l1.lastVideoProgress
      l2 == IF shows THEN [l1 EXCEPT !.lastVideoProgress = fr.progress] ELSE l1
      l3 == IF shows /\ settings.show_thinking
              THEN [l2 EXCEPT !.videoProgressStarted = TRUE] ELSE l2
      o1 == IF shows /\ settings.show_thinking
              THEN Append(o, makeChunk(l.currentModel, VideoMessage(l, fr.progress), Null))
              ELSE o
      o2 == IF fr.videoUrl # ""
              THEN Append(o1, makeChunk(l.currentModel, <<VideoHtml>>, Null))
              ELSE o1
  IN [loc |-> l3, out |-> o2, term |-> "none"]

\* image mode branch (isImage)
HandleImage(l, o, fr) ==
  IF fr.modelResponse # "none"
    THEN IF fr.modelResponse = "urls"
           THEN [loc |-> l,
                 out |-> o \o <<makeChunk(l.currentModel, <<ImageMarkdown>>, "stop"),
                               makeDone>>,
                 term |-> "image"]
           ELSE [loc |-> l, out |-> o, term |-> "none"]
  ELSE IF fr.tokenType = "string" /\ fr.token # <<>>
    THEN [loc |-> l, out |-> Append(o, makeChunk(l.currentModel, fr.token, Null)),
          term |-> "none"]
  ELSE [loc |-> l, out |-> o, term |-> "none"]

\* the text chat branch enqueueing every token
HandleText_neverSkips(l, o, fr) ==
  IF fr.tokenType # "string" \/ fr.token = <<>>
    THEN [loc |-> l, out |-> o, term |-> "none"]
  ELSE
    LET filtered == TagFilter_filter(settings.filtered_tags, l.tagFilter, fr.token)
        l1 == [l EXCEPT !.tagFilter = filtered.f]
        token == filtered.res
        currentIsThinking == fr.isThinking
        skipped == [loc |-> l1, out |-> o, term |-> "none"]
    IN IF token = <<>> THEN skipped
       ELSE IF l1.thinkingFinished /\ currentIsThinking THEN skipped
       ELSE IF fr.search /\ ~(currentIsThinking /\ settings.show_thinking) THEN skipped
       ELSE
         LET tokenWithSearch == IF fr.search THEN token \o <<SearchLine, NL>> ELSE token
             content0 == IF fr.messageTag = "header"
                           THEN <<NL, NL>> \o tokenWithSearch \o <<NL, NL>>
                           ELSE tokenWithSearch
             opens == ~l1.isThinking /\ currentIsThinking
             closes == l1.isThinking /\ ~currentIsThinking
             content == IF opens /\ settings.show_thinking
                          THEN <<ThinkOpen, NL>> \o content0
                        ELSE IF closes /\ settings.show_thinking
                          THEN <<NL, ThinkClose, NL>> \o content0
                        ELSE content0
             shouldSkip == FALSE
             l2 == [l1 EXCEPT !.thinkingFinished = IF closes THEN TRUE ELSE @,
                              !.isThinking = currentIsThinking]
         IN [loc |-> l2,
             out |-> IF shouldSkip THEN o
                     ELSE Append(o, makeChunk(l1.currentModel, content, Null)),
             term |-> "none"]

\* the text chat branch without the thinkingFinished test
HandleText_reopens(l, o, fr) ==
  IF fr.tokenType # "string" \/ fr.token = <<>>
    THEN [loc |-> l, out |-> o, term |-> "none"]
  ELSE
    LET filtered == TagFilter_filter(settings.filtered_tags, l.tagFilter, fr.token)
        l1 == [l EXCEPT !.tagFilter = filtered.f]
        token == filtered.res
        currentIsThinking == fr.isThinking
        skipped == [loc |-> l1, out |-> o, term |-> "none"]
    IN IF token = <<>> THEN skipped
       ELSE IF fr.search /\ ~(currentIsThinking /\ settings.show_thinking) THEN skipped
       ELSE
         LET tokenWithSearch == IF fr.search THEN token \o <<SearchLine, NL>> ELSE token
             content0 == IF fr.messageTag = "header"
                           THEN <<NL, NL>> \o tokenWithSearch \o <<NL, NL>>
                           ELSE tokenWithSearch
             opens == ~l1.isThinking /\ currentIsThinking
             closes == l1.isThinking /\ ~currentIsThinking
             content == IF opens /\ settings.show_thinking
                          THEN <<ThinkOpen, NL>> \o content0
                        ELSE IF closes /\ settings.show_thinking
                          THEN <<NL, ThinkClose, NL>> \o content0
                        ELSE content0
             shouldSkip == IF opens THEN ~settings.show_thinking
                           ELSE IF closes THEN FALSE
                           ELSE currentIsThinking /\ ~settings.show_thinking
             l2 == [l1 EXCEPT !.thinkingFinished = IF closes THEN TRUE ELSE @,
                              !.isThinking = currentIsThinking]
         IN [loc |-> l2,
             out |-> IF shouldSkip THEN o
                     ELSE Append(o, makeChunk(l1.currentModel, content, Null)),
             term |-> "none"]

\* the text chat stream branch of the line loop
HandleText(l, o, fr) ==
  IF fr.tokenType # "string" \/ fr.token = <<>>
    THEN [loc |-> l, out |-> o, term |-> "none"]
  ELSE
    LET filtered == TagFilter_filter(settings.filtered_tags, l.tagFilter, fr.token)
        l1 == [l EXCEPT !.tagFilter = filtered.f]
        token == filtered.res
        currentIsThinking == fr.isThinking
        skipped == [loc |-> l1, out |-> o, term |-> "none"]
    IN IF token = <<>> THEN skipped
       ELSE IF l1.thinkingFinished /\ currentIsThinking THEN skipped
       ELSE IF fr.search /\ ~(currentIsThinking /\ settings.show_thinking) THEN skipped
       ELSE
         LET tokenWithSearch == IF fr.search THEN token \o <<SearchLine, NL>> ELSE token
             content0 == IF fr.messageTag = "header"
                           THEN <<NL, NL>> \o tokenWithSearch \o <<NL, NL>>
                           ELSE tokenWithSearch
             opens == ~l1.isThinking /\ currentIsThinking
             closes == l1.isThinking /\ ~currentIsThinking
             content == IF opens /\ settings.show_thinking
                          THEN <<ThinkOpen, NL>> \o content0
                        ELSE IF closes /\ settings.show_thinking
                          THEN <<NL, ThinkClose, NL>> \o content0
                        ELSE content0
             shouldSkip == IF opens THEN ~settings.show_thinking
                           ELSE IF closes THEN FALSE
                           ELSE currentIsThinking /\ ~settings.show_thinking
             l2 == [l1 EXCEPT !.thinkingFinished = IF closes THEN TRUE ELSE @,
                              !.isThinking = currentIsThinking]
         IN [loc |-> l2,
             out |-> IF shouldSkip THEN o
                     ELSE Append(o, makeChunk(l1.currentModel, content, Null)),
             term |-> "none"]

\* the loop body without the return after an error frame
HandleLine_errorContinues(l, o, fr, now) ==
  IF ~fr.json THEN [loc |-> l, out |-> o, term |-> "none"]
  ELSE
    LET l1 == [l EXCEPT !.firstReceived = TRUE, !.lastChunkTime = now]
    IN IF fr.isNull THEN [loc |-> l1, out |-> o, term |-> "throw"]
       ELSE IF fr.error # ""
         THEN [loc |-> [l1 EXCEPT !.finalStatus = 500],
               out |-> o \o <<makeChunk(l1.currentModel, <<ErrorPrefix, fr.error>>, "stop"),
                             makeDone>>,
               term |-> "none"]
       ELSE IF ~fr.response THEN [loc |-> l1, out |-> o, term |-> "none"]
       ELSE
         LET l2 == IF fr.model # "" THEN [l1 EXCEPT !.currentModel = fr.model] ELSE l1
         IN IF fr.video THEN HandleVideo(l2, o, fr)
            ELSE
              LET l3 == IF fr.imageAttachmentInfo THEN [l2 EXCEPT !.isImage = TRUE] ELSE l2
              IN IF l3.isImage THEN HandleImage(l3, o, fr) ELSE HandleText(l3, o, fr)

\* the body of the loop over the lines of the buffer, for one non-empty line;
\* term is "none" (next line), "errorFrame" or "image" (the terminal chunk and
\* [DONE] were enqueued, onFinish is awaited next) or "throw" (a TypeError
\* left the loop)
HandleLine(l, o, fr, now) ==
  IF ~fr.json THEN [loc |-> l, out |-> o, term |-> "none"]
  ELSE
    LET l1 == [l EXCEPT !.firstReceived = TRUE, !.lastChunkTime = now]
    IN IF fr.isNull THEN [loc |-> l1, out |-> o, term |-> "throw"]
       ELSE IF fr.error # ""
         THEN [loc |-> [l1 EXCEPT !.finalStatus = 500],
               out |-> o \o <<makeChunk(l1.currentModel, <<ErrorPrefix, fr.error>>, "stop"),
                             makeDone>>,
               term |-> "errorFrame"]
       ELSE IF ~fr.response THEN [loc |-> l1, out |-> o, term |-> "none"]
       ELSE
         LET l2 == IF fr.model # "" THEN [l1 EXCEPT !.currentModel = fr.model] ELSE l1
         IN IF fr.video THEN HandleVideo(l2, o, fr)
            ELSE
              LET l3 == IF fr.imageAttachmentInfo THEN [l2 EXCEPT !.isImage = TRUE] ELSE l2
              IN IF l3.isImage THEN HandleImage(l3, o, fr) ELSE HandleText(l3, o, fr)

\* the transcoder before start(controller) has run
StreamIdle ==
  /\ settings = [show_thinking |-> TRUE, filtered_tags |-> <<>>, first |-> 0,
                 chunk |-> 0, total |-> 0, idle |-> 0, videoIdle |-> 0]
  /\ hasBody = TRUE
  /\ upstream = "text"
  /\ pc = "start"
  /\ loc = NewLocals
  /\ out = <<>>
  /\ controller = "open"
  /\ readerLock = "none"
  /\ onFinishCalls = <<>>
  /\ clock = 0
  /\ perRead = 0
  /\ linesLeft = 0
  /\ reads = 0
  /\ lineCount = 0
  /\ handled = <<>>
  /\ paths = <<>>
  /\ inCatch = FALSE
  /\ caught = <<>>

\* ------------------------------------------------------------------------
\* BatchTask
\* ------------------------------------------------------------------------

\* constructor: this.total = Math.max(0, Math.floor(total)), on integers
BatchTaskTotal(t) == Max(0, t)

\* the event object the methods build; absent optional fields are Undefined
Event(type, p, o, f, item, err, warn, res) ==
  [type |-> type, total |-> total, processed |-> p, ok |-> o, fail |-> f,
   item |-> item, error |-> err, warning |-> warn, result |-> res]

\* snapshot() reporting the ok count as processed
snapshot_okAsProcessed ==
  [type |-> "init", status |-> status, total |-> total, processed |-> ok,
   ok |-> ok, fail |-> fail, warning |-> warning]

\* snapshot()
snapshot ==
  [type |-> "init", status |-> status, total |-> total, processed |-> processed,
   ok |-> ok, fail |-> fail, warning |-> warning]

IsTerminal(ev) == ev.type \in TerminalTypes

\* the callback createTaskSSEStream subscribes to the task:
\*   try { controller.enqueue(event); if (terminal) { unsubscribe(); controller.close() } }
\*   catch { unsubscribe() }
\* enqueue throws once the controller is no longer readable
BridgeWrites(s, ev) == streamState[s] = "readable"
BridgeCloses(s, ev) == BridgeWrites(s, ev) /\ IsTerminal(ev)
\* the callback without unsubscribe() on a terminal event
BridgeUnsubscribes_onlyOnThrow(s, ev) == ~BridgeWrites(s, ev)
BridgeUnsubscribes(s, ev) == IsTerminal(ev) \/ ~BridgeWrites(s, ev)

\* _publish(event) without the try/catch around cb(event): a throwing
\* callback ends the loop and the exception leaves _publish
publish_noCatch(ev) ==
  /\ published' = Append(published, ev)
  /\ IF callbacks \cap Throwers # {}
       THEN /\ received' = [u \in AllSubs |->
                  IF u \in callbacks \cap Throwers
                    THEN Append(received[u], ev) ELSE received[u]]
            /\ escaped' = TRUE
            /\ UNCHANGED <<written, streamState, callbacks>>
       ELSE /\ written' = [s \in Streams |->
                  IF s \in callbacks /\ BridgeWrites(s, ev)
                    THEN Append(written[s], ev) ELSE written[s]]
            /\ streamState' = [s \in Streams |->
                  IF s \in callbacks /\ BridgeCloses(s, ev)
                    THEN "closed" ELSE streamState[s]]
            /\ received' = [u \in AllSubs |->
                  IF u \in callbacks THEN Append(received[u], ev) ELSE received[u]]
            /\ callbacks' = callbacks \ {s \in Streams :
                  s \in callbacks /\ BridgeUnsubscribes(s, ev)}
            /\ UNCHANGED escaped
  /\ UNCHANGED openedAt

\* _publish(event): every callback of the set is called with the event; what
\* a callback throws is swallowed
publish(ev) ==
  /\ published' = Append(published, ev)
  /\ written' = [s \in Streams |->
        IF s \in callbacks /\ BridgeWrites(s, ev)
          THEN Append(written[s], ev) ELSE written[s]]
  /\ streamState' = [s \in Streams |->
        IF s \in callbacks /\ BridgeCloses(s, ev)
          THEN "closed" ELSE streamState[s]]
  /\ received' = [u \in AllSubs |->
        IF u \in callbacks THEN Append(received[u], ev) ELSE received[u]]
  /\ callbacks' = callbacks \ {s \in Streams :
        s \in callbacks /\ BridgeUnsubscribes(s, ev)}
  /\ UNCHANGED <<openedAt, escaped>>

\* record with the else of "if (ok) this._ok++ else this._fail++" lost
record_failAlways(args) ==
  /\ processed' = processed + 1
  /\ ok' = IF args.ok THEN ok + 1 ELSE ok
  /\ fail' = fail + 1
  /\ publish(Event("progress", processed', ok', fail', args.item,
                   IF args.error \in {Undefined, ""} THEN Undefined ELSE args.error,
                   Undefined, Undefined))
  /\ UNCHANGED <<total, status, warning, result, error, cancelled, finalEvent>>

\* record counting only the successful items as processed
record_countsOnlyOk(args) ==
  /\ processed' = IF args.ok THEN processed + 1 ELSE processed
  /\ ok' = IF args.ok THEN ok + 1 ELSE ok
  /\ fail' = IF args.ok THEN fail ELSE fail + 1
  /\ publish(Event("progress", processed', ok', fail', args.item,
                   IF args.error \in {Undefined, ""} THEN Undefined ELSE args.error,
                   Undefined, Undefined))
  /\ UNCHANGED <<total, status, warning, result, error, cancelled, finalEvent>>

\* record({ok, item, detail, error})
record(args) ==
  /\ processed' = processed + 1
  /\ ok' = IF args.ok THEN ok + 1 ELSE ok
  /\ fail' = IF args.ok THEN fail ELSE fail + 1
  /\ publish(Event("progress", processed', ok', fail', args.item,
                   IF args.error \in {Undefined, ""} THEN Undefined ELSE args.error,
                   Undefined, Undefined))
  /\ UNCHANGED <<total, status, warning, result, error, cancelled, finalEvent>>

\* finish(result, warning)
finish(res, warn) ==
  /\ status' = "done"
  /\ result' = res
  /\ warning' = IF warn = Undefined THEN Null ELSE warn
  /\ finalEvent' = Event("done", processed, ok, fail, Undefined, Undefined,
                         warning', res)
  /\ publish(finalEvent')
  /\ UNCHANGED <<total, processed, ok, fail, error, cancelled>>

\* failTask that publishes the error event without keeping it as finalEvent
failTask_noFinalEvent(err) ==
  /\ status' = "error"
  /\ error' = err
  /\ publish(Event("error", processed, ok, fail, Undefined, err, Undefined, Undefined))
  /\ UNCHANGED <<total, processed, ok, fail, warning, result, cancelled, finalEvent>>

\* failTask(error)
failTask(err) ==
  /\ status' = "error"
  /\ error' = err
  /\ finalEvent' = Event("error", processed, ok, fail, Undefined, err,
                         Undefined, Undefined)
  /\ publish(finalEvent')
  /\ UNCHANGED <<total, processed, ok, fail, warning, result, cancelled>>

\* cancel() that also marks the task cancelled
cancel_setsStatus ==
  /\ cancelled' = TRUE
  /\ status' = "cancelled"
  /\ UNCHANGED <<total, processed, ok, fail, warning, result, error,
                 finalEvent, callbacks>>
  /\ UNCHANGED <<bridgeVars, received, published, escaped>>

\* cancel()
cancel ==
  /\ cancelled' = TRUE
  /\ UNCHANGED <<total, processed, ok, fail, status, warning, result, error,
                 finalEvent, callbacks>>
  /\ UNCHANGED <<bridgeVars, received, published, escaped>>

\* finishCancelled()
finishCancelled ==
  /\ status' = "cancelled"
  /\ finalEvent' = Event("cancelled", processed, ok, fail, Undefined, Undefined,
                         Undefined, Undefined)
  /\ publish(finalEvent')
  /\ UNCHANGED <<total, processed, ok, fail, warning, result, error, cancelled>>

\* subscribe(callback) and the unsubscribe function it returns
subscribe(u) ==
  /\ u \notin callbacks
  /\ callbacks' = callbacks \cup {u}
  /\ received' = [received EXCEPT ![u] = <<>>]
  /\ UNCHANGED <<total, processed, ok, fail, status, warning, result, error,
                 cancelled, finalEvent>>
  /\ UNCHANGED <<bridgeVars, published, escaped>>

unsubscribe(u) ==
  /\ u \in callbacks
  /\ callbacks' = callbacks \ {u}
  /\ UNCHANGED <<total, processed, ok, fail, status, warning, result, error,
                 cancelled, finalEvent>>
  /\ UNCHANGED <<bridgeVars, received, published, escaped>>

\* start(controller) without the close and return after the final event
createTaskSSEStream_noReturn(s) ==
  /\ streamState[s] = "unopened"
  /\ openedAt' = [openedAt EXCEPT ![s] = Len(published)]
  /\ written' = [written EXCEPT ![s] =
        IF finalEvent # NullEvent THEN <<snapshot, finalEvent>> ELSE <<snapshot>>]
  /\ streamState' = [streamState EXCEPT ![s] = "readable"]
  /\ callbacks' = callbacks \cup {s}
  /\ UNCHANGED <<total, processed, ok, fail, status, warning, result, error,
                 cancelled, finalEvent>>
  /\ UNCHANGED <<received, published, escaped>>

\* createTaskSSEStream(task): start(controller)
createTaskSSEStream(s) ==
  /\ streamState[s] = "unopened"
  /\ openedAt' = [openedAt EXCEPT ![s] = Len(published)]
  /\ IF finalEvent # NullEvent
       THEN /\ written' = [written EXCEPT ![s] = <<snapshot, finalEvent>>]
            /\ streamState' = [streamState EXCEPT ![s] = "closed"]
            /\ UNCHANGED callbacks
       ELSE /\ written' = [written EXCEPT ![s] = <<snapshot>>]
            /\ streamState' = [streamState EXCEPT ![s] = "readable"]
            /\ callbacks' = callbacks \cup {s}
  /\ UNCHANGED <<total, processed, ok, fail, status, warning, result, error,
                 cancelled, finalEvent>>
  /\ UNCHANGED <<received, published, escaped>>

\* ------------------------------------------------------------------------
\* The task under arbitrary calls of its methods
\* ------------------------------------------------------------------------
\* arguments of record: item present or not, error truthy or falsy
RecordArgs ==
  {[ok |-> TRUE, item |-> Undefined, error |-> ""],
   [ok |-> FALSE, item |-> "a", error |-> "e"]}

TaskInit(t) ==
  /\ total = BatchTaskTotal(t)
  /\ processed = 0 /\ ok = 0 /\ fail = 0
  /\ status = "running"
  /\ warning = Null /\ result = Null /\ error = Null
  /\ cancelled = FALSE
  /\ finalEvent = NullEvent
  /\ callbacks = {}
  /\ streamState = [s \in Streams |-> "unopened"]
  /\ written = [s \in Streams |-> <<>>]
  /\ openedAt = [s \in Streams |-> 0]
  /\ received = [u \in AllSubs |-> <<>>]
  /\ published = <<>>
  /\ escaped = FALSE

\* crypto.randomUUID(): the k-th task made has the k-th id
TaskIdOf == <<"t1", "t2", "t3", "t4">>
TaskIds == {TaskIdOf[k] : k \in 1 .. MaxTasks}

\* const _TASKS = new Map(): nothing registered, no timer pending
RegistryIdle ==
  /\ registry = {}
  /\ created = 0
  /\ timers = [id \in TaskIds |-> 0]
  /\ fired = {}

\* ------------------------------------------------------------------------
\* Values of object fields and of JSON texts: a field is absent, present
\* with the value undefined, or present with a value
\* ------------------------------------------------------------------------
AbsentField == [t |-> "absent"]
UndefinedField == [t |-> "undefined"]
FunctionValue == [t |-> "function"]
Str(s) == [t |-> "string", v |-> s]
Bool(b) == [t |-> "boolean", v |-> b]
\* x ?? y takes y for these
IsNullish(x) == x.t \in {"absent", "undefined"}

\* { ...a, ...b }: an own property of b wins, also when its value is undefined
Spread(a, b) == [k \in DOMAIN a |-> IF b[k] = AbsentField THEN a[k] ELSE b[k]]
\* JSON.stringify(o) leaves out the properties that are undefined or functions
JSONstringify(o) ==
  [k \in DOMAIN o |-> IF o[k].t \in {"undefined", "function"} THEN AbsentField ELSE o[k]]
\* safeParseJson(raw, fallback) of a text JSON.stringify wrote
safeParseJson(raw) == raw

\* the settings sections modelled: global (one of the five sections that are
\* merged over their defaults as they are) and grok
SettingsDefaults ==
  [global |-> [log_level |-> Str(<<"INFO">>)],
   grok |-> [cf_clearance |-> Str(<<>>),
             image_generation_method |-> Str(<<"legacy">>),
             show_thinking |-> Bool(TRUE)]]
EmptyGlobal == [log_level |-> AbsentField]
EmptyGrok == [cf_clearance |-> AbsentField, image_generation_method |-> AbsentField,
              show_thinking |-> AbsentField]
NoSettingsRow(empty) == [present |-> FALSE, value |-> empty, updated_at |-> 0]
NoProgressRow == [present |-> FALSE]

\* the callers of the asynchronous database functions
Callers == 1 .. NumCallers
NoCall == [pc |-> "idle"]

\* an empty database at time 0
DbIdle ==
  /\ dbNow = 0
  /\ dbCall = [op |-> "none"]
  /\ settingsTable = [global |-> NoSettingsRow(EmptyGlobal), grok |-> NoSettingsRow(EmptyGrok)]
  /\ progressRow = NoProgressRow
  /\ requestLogs = <<>>
  /\ inflight = [c \in Callers |-> NoCall]

PoolIdle ==
  /\ items = <<>> /\ concurrency = 1 /\ queue = <<>>
  /\ workers = [w \in WorkerIds |-> [state |-> "none", item |-> Undefined]]
  /\ poolState = "idle"
  /\ started = <<>>

MayPublish == Len(published) < MaxEvents

CallRecord == \E args \in RecordArgs : MayPublish /\ record(args) /\ UNCHANGED <<poolVars, streamVars, filterVars, registryVars, dbVars>>
CallFinish ==
  \E res \in ResultArgs, warn \in WarningArgs :
    MayPublish /\ finish(res, warn) /\ UNCHANGED <<poolVars, streamVars, filterVars, registryVars, dbVars>>
CallFailTask == MayPublish /\ failTask("e") /\ UNCHANGED <<poolVars, streamVars, filterVars, registryVars, dbVars>>
CallCancel == cancel /\ UNCHANGED <<poolVars, streamVars, filterVars, registryVars, dbVars>>
CallFinishCancelled == MayPublish /\ finishCancelled /\ UNCHANGED <<poolVars, streamVars, filterVars, registryVars, dbVars>>
CallSubscribe == \E u \in Subs : subscribe(u) /\ UNCHANGED <<poolVars, streamVars, filterVars, registryVars, dbVars>>
CallUnsubscribe == \E u \in Subs : unsubscribe(u) /\ UNCHANGED <<poolVars, streamVars, filterVars, registryVars, dbVars>>
\* the streams are interchangeable: they are opened in the order of their index
OpenStream ==
  \E s \in Streams :
    /\ \A r \in Streams : r < s => streamState[r] # "unopened"
    /\ createTaskSSEStream(s)
    /\ UNCHANGED <<poolVars, streamVars, filterVars, registryVars, dbVars>>

InitTask == (\E t \in TotalArgs : TaskInit(t)) /\ PoolIdle /\ StreamIdle /\ FilterIdle /\ RegistryIdle /\ DbIdle

NextTask ==
  \/ CallRecord
  \/ CallFinish
  \/ CallFailTask
  \/ CallCancel
  \/ CallFinishCancelled
  \/ CallSubscribe
  \/ CallUnsubscribe
  \/ OpenStream

SpecTask == InitTask /\ [][NextTask]_vars

\* ------------------------------------------------------------------------
\* The task with a subscriber whose callback throws
\* ------------------------------------------------------------------------
CallSubscribeAny ==
  \E u \in AllSubs : subscribe(u) /\ UNCHANGED <<poolVars, streamVars, filterVars, registryVars, dbVars>>

InitCallbacks == InitTask

NextCallbacks ==
  \/ CallSubscribeAny
  \/ OpenStream
  \/ CallRecord
  \/ CallFinish
  \/ CallFailTask
  \/ CallFinishCancelled

SpecCallbacks == InitCallbacks /\ [][NextCallbacks]_vars

\* ------------------------------------------------------------------------
\* The task registry: _TASKS, createTask, getTask, deleteTask, expireTask
\* ------------------------------------------------------------------------
\* createTask(total): the first task made is the one whose fields are the
\* BatchTask variables (they hold the constructor's values until then)
createTask(t) ==
  /\ created < MaxTasks
  /\ created' = created + 1
  /\ registry' = registry \cup {TaskIdOf[created + 1]}
  /\ total' = IF created = 0 THEN BatchTaskTotal(t) ELSE total
  /\ UNCHANGED <<processed, ok, fail, status, warning, result, error, cancelled,
                 finalEvent, callbacks>>
  /\ UNCHANGED <<bridgeVars, received, published, escaped, poolVars>>
  /\ UNCHANGED <<timers, fired>>

\* getTask(taskId): _TASKS.get(taskId)
getTask(id) == IF id \in registry THEN id ELSE Undefined

\* deleteTask emptying the whole map
deleteTask_clearsAll(id) ==
  registry' = {}

\* deleteTask(taskId): _TASKS.delete(taskId)
deleteTask(id) ==
  registry' = registry \ {id}

\* expireTask(taskId, delayMs): setTimeout(() => deleteTask(taskId), delayMs)
expireTask(id) ==
  /\ timers[id] < MaxTimers
  /\ timers' = [timers EXCEPT ![id] = @ + 1]
  /\ UNCHANGED <<registry, created, fired>>
  /\ UNCHANGED batchVars

\* the callback of a pending timer runs
TimerFires(id) ==
  /\ timers[id] > 0
  /\ timers' = [timers EXCEPT ![id] = @ - 1]
  /\ deleteTask(id)
  /\ fired' = fired \cup {id}
  /\ UNCHANGED created
  /\ UNCHANGED batchVars

CallCreateTask == \E t \in TotalArgs : createTask(t) /\ UNCHANGED <<streamVars, filterVars, dbVars>>
\* callers pass the id of a task they were given
CallExpireTask ==
  \E k \in 1 .. created : expireTask(TaskIdOf[k]) /\ UNCHANGED <<streamVars, filterVars, dbVars>>
Timeout == \E id \in TaskIds : TimerFires(id) /\ UNCHANGED <<streamVars, filterVars, dbVars>>
\* the methods of the first task, once it is made
TaskRecord == created >= 1 /\ CallRecord
TaskFinish == created >= 1 /\ CallFinish
TaskFailTask == created >= 1 /\ CallFailTask
TaskFinishCancelled == created >= 1 /\ CallFinishCancelled

InitRegistry == TaskInit(0) /\ PoolIdle /\ StreamIdle /\ FilterIdle /\ RegistryIdle /\ DbIdle

NextRegistry ==
  \/ CallCreateTask
  \/ CallExpireTask
  \/ Timeout
  \/ TaskRecord
  \/ TaskFinish
  \/ TaskFailTask
  \/ TaskFinishCancelled

SpecRegistry == InitRegistry /\ [][NextRegistry]_vars

\* ------------------------------------------------------------------------
\* runInBatches(items, task, processor, concurrency)
\* ------------------------------------------------------------------------
WorkerDone == [state |-> "done", item |-> Undefined]

\* the loop test without "&& !task.cancelled"
LoopStep_ignoresCancel(q, canc) ==
  IF q = <<>>
    THEN [queue |-> q, worker |-> WorkerDone, started |-> <<>>]
  ELSE IF Head(q) = Undefined
    THEN [queue |-> Tail(q), worker |-> WorkerDone, started |-> <<>>]
  ELSE [queue |-> Tail(q), worker |-> [state |-> "busy", item |-> Head(q)],
        started |-> <<Head(q)>>]

\* one pass of a worker from the loop test to its next await:
\* while (queue.length > 0 && !task.cancelled) { item = queue.shift();
\*   if (item === undefined) break; ... await processor(item)
LoopStep(q, canc) ==
  IF q = <<>> \/ canc
    THEN [queue |-> q, worker |-> WorkerDone, started |-> <<>>]
  ELSE IF Head(q) = Undefined
    THEN [queue |-> Tail(q), worker |-> WorkerDone, started |-> <<>>]
  ELSE [queue |-> Tail(q), worker |-> [state |-> "busy", item |-> Head(q)],
        started |-> <<Head(q)>>]

\* the for loop that creates the workers: each async body runs to its first await
RECURSIVE StartWorkers(_, _, _, _, _, _)
StartWorkers(i, n, q, ws, st, canc) ==
  IF i > n THEN [queue |-> q, workers |-> ws, started |-> st]
  ELSE LET step == LoopStep(q, canc)
       IN StartWorkers(i + 1, n, step.queue, [ws EXCEPT ![i] = step.worker],
                       st \o step.started, canc)

\* the for loop creating one worker per item, whatever concurrency is
WorkerCount_perItem == Len(items)
WorkerCount == Min(concurrency, Len(items))

runInBatches ==
  /\ poolState = "idle"
  /\ LET r == StartWorkers(1, WorkerCount, items, workers, <<>>, cancelled)
     IN /\ queue' = r.queue
        /\ workers' = r.workers
        /\ started' = r.started
  /\ poolState' = "running"
  /\ UNCHANGED <<items, concurrency>>
  /\ UNCHANGED <<taskVars, bridgeVars, received, published, escaped, streamVars, filterVars, registryVars, dbVars>>

\* what processor(item) settles with: a result object or a thrown error
ProcessorOutcomes ==
  {[kind |-> "return", ok |-> TRUE, error |-> Undefined],
   [kind |-> "return", ok |-> FALSE, error |-> "e"],
   [kind |-> "throw", ok |-> FALSE, error |-> "e"]}

\* the worker without try/catch around await processor(item): a thrown error
\* rejects the worker's promise
WorkerSettle_noCatch(w) ==
  /\ poolState = "running"
  /\ workers[w].state = "busy"
  /\ \E res \in ProcessorOutcomes :
       IF res.kind = "throw"
         THEN /\ workers' = [workers EXCEPT ![w] = [state |-> "rejected", item |-> Undefined]]
              /\ UNCHANGED <<queue, started>>
              /\ UNCHANGED <<taskVars, bridgeVars, received, published, escaped>>
         ELSE /\ record([ok |-> res.ok, item |-> workers[w].item, error |-> res.error])
              /\ LET step == LoopStep(queue, cancelled)
                 IN /\ queue' = step.queue
                    /\ workers' = [workers EXCEPT ![w] = step.worker]
                    /\ started' = started \o step.started
  /\ UNCHANGED <<items, concurrency, poolState, streamVars, filterVars, registryVars, dbVars>>

\* the worker's continuation after await processor(item): record, then loop
WorkerSettle(w) ==
  /\ poolState = "running"
  /\ workers[w].state = "busy"
  /\ \E res \in ProcessorOutcomes :
       record([ok |-> IF res.kind = "throw" THEN FALSE ELSE res.ok,
               item |-> workers[w].item, error |-> res.error])
  /\ LET step == LoopStep(queue, cancelled)
     IN /\ queue' = step.queue
        /\ workers' = [workers EXCEPT ![w] = step.worker]
        /\ started' = started \o step.started
  /\ UNCHANGED <<items, concurrency, poolState, streamVars, filterVars, registryVars, dbVars>>

\* runInBatches without the await of Promise.all(workers)
PoolResolve_noAwait ==
  /\ poolState = "running"
  /\ poolState' = "resolved"
  /\ IF cancelled
       THEN finishCancelled
       ELSE UNCHANGED <<taskVars, bridgeVars, received, published, escaped>>
  /\ UNCHANGED <<items, concurrency, queue, workers, started, streamVars, filterVars, registryVars, dbVars>>

\* the continuation of await Promise.all(workers)
PoolResolve ==
  /\ poolState = "running"
  /\ \A w \in 1 .. WorkerCount : workers[w].state = "done"
  /\ poolState' = "resolved"
  /\ IF cancelled
       THEN finishCancelled
       ELSE UNCHANGED <<taskVars, bridgeVars, received, published, escaped>>
  /\ UNCHANGED <<items, concurrency, queue, workers, started, streamVars, filterVars, registryVars, dbVars>>

\* the caller of runInBatches: finishes the task the pool left running
CallerFinish ==
  /\ poolState = "resolved"
  /\ status = "running"
  /\ \E res \in ResultArgs, warn \in WarningArgs : finish(res, warn)
  /\ UNCHANGED <<poolVars, streamVars, filterVars, registryVars, dbVars>>

InitPool ==
  /\ items \in ItemLists(MaxItems)
  /\ concurrency \in 1 .. MaxConc
  /\ TaskInit(Len(items))
  /\ FilterIdle
  /\ RegistryIdle /\ DbIdle
  /\ queue = <<>>
  /\ workers = [w \in WorkerIds |-> [state |-> "none", item |-> Undefined]]
  /\ poolState = "idle"
  /\ started = <<>>
  /\ StreamIdle

NextPool ==
  \/ runInBatches
  \/ \E w \in WorkerIds : WorkerSettle(w)
  \/ PoolResolve
  \/ CallerFinish
  \/ CallCancel
  \/ CallSubscribe
  \/ OpenStream

SpecPool == InitPool /\ [][NextPool]_vars

\* runInBatches when every processor invocation settles and every
\* continuation that is ready runs
NextPoolLive ==
  \/ runInBatches
  \/ \E w \in WorkerIds : WorkerSettle(w)
  \/ PoolResolve
  \/ CallerFinish
  \/ CallCancel

SpecPoolLive ==
  /\ InitPool
  /\ [][NextPoolLive]_vars
  /\ \A w \in WorkerIds : WF_vars(WorkerSettle(w))
  /\ WF_vars(PoolResolve)

\* ------------------------------------------------------------------------
\* createOpenAiStreamFromGrokNdjson: start(controller)
\* ------------------------------------------------------------------------
\* Math.max(0, seconds * 1000), in clock ticks
TimeoutMs(seconds) == Max(0, seconds)

\* the timeout settings the runs are made with, in seconds (ticks)
DefaultTimers == [first |-> 1, chunk |-> 3, total |-> 4, idle |-> 1, videoIdle |-> 2]
TimerSettings ==
  {DefaultTimers,
   [first |-> 1, chunk |-> 1, total |-> 0, idle |-> -1, videoIdle |-> 0],
   [first |-> 0, chunk |-> 2, total |-> 2, idle |-> 2, videoIdle |-> 1]}

FilteredTagSettings == {<<>>, << <<"t">> >>}

GrokSettings(st, ft, t) ==
  [show_thinking |-> st, filtered_tags |-> ft,
   first |-> TimeoutMs(t.first), chunk |-> TimeoutMs(t.chunk),
   total |-> TimeoutMs(t.total), idle |-> TimeoutMs(t.idle),
   videoIdle |-> TimeoutMs(t.videoIdle)]

\* the settings each kind of upstream response is run with
SettingsFor(kind) ==
  IF kind = "text"
    THEN {GrokSettings(st, <<>>, DefaultTimers) : st \in BOOLEAN}
  ELSE IF kind = "tagged"
    THEN {GrokSettings(TRUE, ft, DefaultTimers) : ft \in FilteredTagSettings}
  ELSE IF kind = "video"
    THEN {GrokSettings(st, <<>>, DefaultTimers) : st \in BOOLEAN}
  ELSE IF kind = "image"
    THEN {GrokSettings(TRUE, <<>>, DefaultTimers)}
  ELSE {GrokSettings(TRUE, <<>>, t) : t \in TimerSettings}

UpstreamKinds == {"text", "tagged", "video", "image", "stalling"}

\* the lines the upstream can send
BaseFrame ==
  [json |-> TRUE, isNull |-> FALSE, error |-> "", response |-> TRUE, model |-> "",
   video |-> FALSE, progress |-> 0, videoUrl |-> "", imageAttachmentInfo |-> FALSE,
   tokenType |-> "none", token |-> <<>>, isThinking |-> FALSE, messageTag |-> "",
   search |-> FALSE, modelResponse |-> "none"]

TextFrame(tok, thinking) ==
  [BaseFrame EXCEPT !.tokenType = "string", !.token = tok, !.isThinking = thinking]

VideoFrame(p, url) == [BaseFrame EXCEPT !.video = TRUE, !.progress = p, !.videoUrl = url]

JunkFrame == [BaseFrame EXCEPT !.json = FALSE]
NullFrame == [BaseFrame EXCEPT !.isNull = TRUE]
ErrorFrame == [BaseFrame EXCEPT !.error = "m"]
NoResponseFrame == [BaseFrame EXCEPT !.response = FALSE]

FramesOf(kind) ==
  IF kind = "text" THEN
    {TextFrame(<<"r">>, TRUE),
     TextFrame(<<"a">>, FALSE),
     [TextFrame(<<"h">>, FALSE) EXCEPT !.messageTag = "header", !.model = "grok-x"],
     [TextFrame(<<"s">>, TRUE) EXCEPT !.search = TRUE],
     [TextFrame(<<"s">>, FALSE) EXCEPT !.search = TRUE]}
  ELSE IF kind = "tagged" THEN
    {TextFrame(<<"a">>, TRUE),
     TextFrame(<<"a">>, FALSE),
     TextFrame(<<"<">>, FALSE),
     TextFrame(<<"<", "t", ">">>, FALSE),
     TextFrame(<<"<", "/", "t", ">">>, FALSE)}
  ELSE IF kind = "video" THEN
    {VideoFrame(50, ""),
     VideoFrame(100, ""),
     VideoFrame(100, "v"),
     NoResponseFrame,
     TextFrame(<<"a">>, FALSE)}
  ELSE IF kind = "image" THEN
    {[TextFrame(<<"i">>, FALSE) EXCEPT !.imageAttachmentInfo = TRUE],
     [BaseFrame EXCEPT !.imageAttachmentInfo = TRUE, !.modelResponse = "urls"],
     [BaseFrame EXCEPT !.modelResponse = "urls"],
     [BaseFrame EXCEPT !.modelResponse = "nourls"],
     [BaseFrame EXCEPT !.tokenType = "array"],
     TextFrame(<<"a">>, FALSE),
     ErrorFrame,
     NullFrame}
  ELSE
    {JunkFrame, NoResponseFrame, TextFrame(<<"a">>, FALSE), VideoFrame(50, "")}

\* how long a read that wins the race can take, given its timeout
DelaysOf(kind, ms) == IF kind = "stalling" THEN 0 .. ms ELSE {0, ms}

\* the clock may advance between two reads of Date.now()
JitterOf(kind) == IF kind = "stalling" THEN {0, 1} ELSE {0}

\* what a rejected read throws
ThrownErrors ==
  {ErrorValue(<<"Error">>, <<"H", "T", "T", "P", "/", "2">>),
   ErrorValue(<<"Error">>, <<"c", "u", "r", "l", ":", " ", "(", "9", "2", ")">>),
   ErrorValue(<<"Error">>, <<"u", "p", "S", "T", "R", "E", "A", "M">>),
   ErrorValue(<<"Error">>, <<"h", "t", "t", "p", "/", "1">>),
   [isError |-> FALSE, name |-> <<>>, message |-> <<"b", "o", "o", "m">>]}

\* what a throwing onFinish throws
OnFinishErrors ==
  {ErrorValue(<<"Error">>, <<"H", "T", "T", "P", "/", "2">>),
   ErrorValue(<<"Error">>, <<"l", "o", "g">>)}

\* the terminal chunk and [DONE] are enqueued (o), opts.onFinish is called
\* with status and awaited
FinishWith(l, o, st, label, catching, c) ==
  /\ pc' = "onFinish"
  /\ loc' = l
  /\ out' = o
  /\ onFinishCalls' = Append(onFinishCalls, st)
  /\ paths' = Append(paths, label)
  /\ inCatch' = catching
  /\ caught' = c

\* the same outside the catch block
Finish(l, o, st, label, catching) == FinishWith(l, o, st, label, catching, caught)

\* catch (e) { ... } testing isHttp2StreamError before instanceof
Catch_http2First(e, l, o) ==
  LET c == Append(caught, e)
  IN IF isHttp2StreamError(e)
       THEN FinishWith(l, flushStop(o, l), 502, "http2", TRUE, c)
     ELSE IF e = StreamIdleTimeoutError
       THEN FinishWith(l, flushStop(o, l), l.finalStatus, "idle", TRUE, c)
     ELSE FinishWith([l EXCEPT !.finalStatus = 500],
                     o \o <<makeChunk(l.currentModel,
                                      <<ProcessingErrorPrefix>>
                                        \o (IF e.isError THEN e.message ELSE StringOf(e)),
                                      "error"),
                            makeDone>>,
                     500, "other", TRUE, c)

\* catch (e) { ... }
Catch(e, l, o) ==
  LET c == Append(caught, e)
  IN IF e = StreamIdleTimeoutError
       THEN FinishWith(l, flushStop(o, l), l.finalStatus, "idle", TRUE, c)
     ELSE IF isHttp2StreamError(e)
       THEN FinishWith(l, flushStop(o, l), 502, "http2", TRUE, c)
     ELSE FinishWith([l EXCEPT !.finalStatus = 500],
                     o \o <<makeChunk(l.currentModel,
                                      <<ProcessingErrorPrefix>>
                                        \o (IF e.isError THEN e.message ELSE StringOf(e)),
                                      "error"),
                            makeDone>>,
                     500, "other", TRUE, c)

\* start(controller) up to the while loop
Start ==
  /\ pc = "start"
  /\ IF ~hasBody
       THEN /\ out' = <<makeChunk(DefaultModel, <<"Empty response">>, "error"), makeDone>>
            /\ controller' = "closed"
            /\ pc' = "returned"
            /\ paths' = Append(paths, "emptyBody")
            /\ UNCHANGED <<loc, readerLock>>
       ELSE /\ readerLock' = "held"
            /\ loc' = NewLocals
            /\ pc' = "loop"
            /\ UNCHANGED <<out, controller, paths>>
  /\ UNCHANGED <<settings, hasBody, upstream, onFinishCalls, clock, perRead, linesLeft,
                 reads, lineCount, handled, inCatch, caught>>
  /\ UNCHANGED <<batchVars, filterVars, registryVars, dbVars>>

\* the top of while (true): the deadline checks, then readWithTimeout is called
LoopTop ==
  /\ pc = "loop"
  /\ \E j \in (IF reads = 0 THEN {0} ELSE JitterOf(upstream)) :
       LET now == clock + j
           elapsed == now
           idle == now - loc.lastChunkTime
           currentIdleTimeoutMs ==
             IF loc.isVideo THEN settings.videoIdle ELSE settings.idle
       IN /\ clock' = now
          /\ IF ~loc.firstReceived /\ elapsed > settings.first
               THEN Finish(loc, flushStop(out, loc), loc.finalStatus, "first", FALSE)
                    /\ UNCHANGED perRead
             ELSE IF settings.total > 0 /\ elapsed > settings.total
               THEN Finish(loc, flushStop(out, loc), loc.finalStatus, "total", FALSE)
                    /\ UNCHANGED perRead
             ELSE IF loc.firstReceived /\ currentIdleTimeoutMs > 0
                       /\ idle > currentIdleTimeoutMs
               THEN Catch(StreamIdleTimeoutError, loc, out) /\ UNCHANGED perRead
             ELSE IF loc.firstReceived /\ idle > settings.chunk
               THEN Finish(loc, flushStop(out, loc), loc.finalStatus, "chunk", FALSE)
                    /\ UNCHANGED perRead
             ELSE /\ perRead' =
                       LET own == IF loc.firstReceived THEN settings.chunk
                                  ELSE settings.first
                       IN IF settings.total > 0
                            THEN Min(own, Max(0, settings.total - elapsed))
                            ELSE own
                  /\ pc' = "read"
                  /\ UNCHANGED <<loc, out, onFinishCalls, paths, inCatch, caught>>
  /\ UNCHANGED <<settings, hasBody, upstream, controller, readerLock, linesLeft, reads, lineCount, handled>>
  /\ UNCHANGED <<batchVars, filterVars, registryVars, dbVars>>

\* the timeout branch reporting a gateway timeout instead of finalStatus
ReadTimeout_reports504 ==
  /\ pc = "read"
  /\ clock' = clock + Max(0, perRead)
  /\ Finish(loc, flushStop(out, loc), 504, "readTimeout", FALSE)
  /\ UNCHANGED <<settings, hasBody, upstream, controller, readerLock, perRead, linesLeft,
                 reads, lineCount, handled>>
  /\ UNCHANGED <<batchVars, filterVars, registryVars, dbVars>>

\* readWithTimeout: ms <= 0, or the timer wins the race
ReadTimeout ==
  /\ pc = "read"
  /\ clock' = clock + Max(0, perRead)
  /\ Finish(loc, flushStop(out, loc), loc.finalStatus, "readTimeout", FALSE)
  /\ UNCHANGED <<settings, hasBody, upstream, controller, readerLock, perRead, linesLeft,
                 reads, lineCount, handled>>
  /\ UNCHANGED <<batchVars, filterVars, registryVars, dbVars>>

\* reader.read() wins with a value: k complete lines are in the buffer
ReadValue ==
  /\ pc = "read"
  /\ perRead > 0
  /\ reads < MaxReads
  /\ \E d \in DelaysOf(upstream, perRead), k \in 0 .. Min(MaxLines, MaxFrames - lineCount) :
       /\ clock' = clock + d
       /\ linesLeft' = k
       /\ loc' = [loc EXCEPT !.buffer = IF k = 0 THEN "partial" ELSE ""]
       /\ pc' = IF k = 0 THEN "loop" ELSE "lines"
  /\ reads' = reads + 1
  /\ UNCHANGED <<settings, hasBody, upstream, out, controller, readerLock, onFinishCalls,
                 perRead, lineCount, handled, paths, inCatch, caught>>
  /\ UNCHANGED <<batchVars, filterVars, registryVars, dbVars>>

\* reader.read() wins with done: the code after the while loop
ReadDone ==
  /\ pc = "read"
  /\ perRead > 0
  /\ Finish(loc, out \o <<makeChunk(loc.currentModel, <<>>, "stop"), makeDone>>,
            loc.finalStatus, "eof", FALSE)
  /\ UNCHANGED <<settings, hasBody, upstream, controller, readerLock, clock, perRead,
                 linesLeft, reads, lineCount, handled>>
  /\ UNCHANGED <<batchVars, filterVars, registryVars, dbVars>>

\* reader.read() rejects
ReadRejects ==
  /\ pc = "read"
  /\ perRead > 0
  /\ \E e \in ThrownErrors : Catch(e, loc, out)
  /\ UNCHANGED <<settings, hasBody, upstream, controller, readerLock, clock, perRead,
                 linesLeft, reads, lineCount, handled>>
  /\ UNCHANGED <<batchVars, filterVars, registryVars, dbVars>>

\* one pass of while ((idx = buffer.indexOf("\n")) !== -1)
ProcessLine ==
  /\ pc = "lines"
  /\ \E fr \in FramesOf(upstream) :
       LET r == HandleLine(loc, out, fr, clock)
       IN /\ IF r.term = "none"
               THEN /\ loc' = r.loc
                    /\ out' = r.out
                    /\ pc' = IF linesLeft = 1 THEN "loop" ELSE "lines"
                    /\ UNCHANGED <<onFinishCalls, paths, inCatch, caught>>
             ELSE IF r.term = "throw"
               THEN Catch(NullTypeError, r.loc, r.out)
             ELSE Finish(r.loc, r.out, r.loc.finalStatus, r.term, FALSE)
          /\ handled' = Append(handled, fr)
  /\ linesLeft' = linesLeft - 1
  /\ lineCount' = lineCount + 1
  /\ UNCHANGED <<settings, hasBody, upstream, controller, readerLock, clock, perRead, reads>>
  /\ UNCHANGED <<batchVars, filterVars, registryVars, dbVars>>

\* opts.onFinish settles normally: controller.close(), then finally
OnFinishReturns ==
  /\ pc = "onFinish"
  /\ controller' = "closed"
  /\ readerLock' = "released"
  /\ pc' = "returned"
  /\ UNCHANGED <<settings, hasBody, upstream, loc, out, onFinishCalls, clock, perRead,
                 linesLeft, reads, lineCount, handled, paths, inCatch, caught>>
  /\ UNCHANGED <<batchVars, filterVars, registryVars, dbVars>>

\* opts.onFinish throws or rejects: inside try the catch block runs, inside
\* catch the exception leaves start(controller) through finally
OnFinishThrows ==
  /\ pc = "onFinish"
  /\ IF ~inCatch
       THEN /\ \E e \in OnFinishErrors : Catch(e, loc, out)
            /\ UNCHANGED <<controller, readerLock>>
       ELSE /\ pc' = "rejected"
            /\ readerLock' = "released"
            /\ controller' = "errored"
            /\ UNCHANGED <<loc, out, onFinishCalls, paths, inCatch, caught>>
  /\ UNCHANGED <<settings, hasBody, upstream, clock, perRead, linesLeft, reads, lineCount, handled>>
  /\ UNCHANGED <<batchVars, filterVars, registryVars, dbVars>>

InitStream ==
  /\ upstream \in UpstreamKinds
  /\ settings \in SettingsFor(upstream)
  /\ hasBody \in BOOLEAN
  /\ pc = "start"
  /\ loc = NewLocals
  /\ out = <<>>
  /\ controller = "open"
  /\ readerLock = "none"
  /\ onFinishCalls = <<>>
  /\ clock = 0 /\ perRead = 0 /\ linesLeft = 0 /\ reads = 0 /\ lineCount = 0
  /\ handled = <<>>
  /\ paths = <<>>
  /\ inCatch = FALSE
  /\ caught = <<>>
  /\ TaskInit(0)
  /\ PoolIdle
  /\ FilterIdle
  /\ RegistryIdle /\ DbIdle

NextStream ==
  \/ Start
  \/ LoopTop
  \/ ReadTimeout
  \/ ReadValue
  \/ ReadDone
  \/ ReadRejects
  \/ ProcessLine
  \/ OnFinishReturns
  \/ OnFinishThrows

SpecStream == InitStream /\ [][NextStream]_vars

\* ------------------------------------------------------------------------
\* TagFilter on its own: a text cut into tokens in every possible way
\* ------------------------------------------------------------------------
\* new TagFilter(filterTags): no tags, the tag t, the tag ta
TagConfigs == {<<>>, <<<<"t">>>>, <<<<"t", "a">>>>}

\* the texts are made of these pieces
Pieces ==
  {<<"a">>, <<"<">>, <<"<", "t">>, <<">">>, <<"/", ">">>, <<"<", "/", "t", ">">>}

RECURSIVE TextsUpTo(_)
TextsUpTo(n) ==
  IF n = 0 THEN {<<>>}
  ELSE LET shorter == TextsUpTo(n - 1)
       IN shorter \cup {t \o p : t \in shorter, p \in Pieces}

\* filter(token) on the next k characters of the text
CallFilter ==
  \E k \in 1 .. Len(fRest) :
    LET r == TagFilter_filter(fTags, tf, SubSeq(fRest, 1, k))
    IN /\ tf' = r.f
       /\ fOut' = fOut \o r.res
       /\ fRest' = SubSeq(fRest, k + 1, Len(fRest))
       /\ fCalls' = fCalls + 1
       /\ UNCHANGED <<fTags, fText, fFlushed, fOnlyFilter>>
       /\ UNCHANGED <<batchVars, streamVars, registryVars, dbVars>>

\* flush()
CallFlush ==
  LET r == TagFilter_flush(tf)
  IN /\ tf' = r.f
     /\ fFlushed' = fFlushed \o r.res
     /\ fOnlyFilter' = FALSE
     /\ UNCHANGED <<fTags, fText, fRest, fOut, fCalls>>
     /\ UNCHANGED <<batchVars, streamVars, registryVars, dbVars>>

\* reset()
CallReset ==
  /\ tf' = TagFilter_reset(tf)
  /\ fOnlyFilter' = FALSE
  /\ UNCHANGED <<fTags, fText, fRest, fOut, fFlushed, fCalls>>
  /\ UNCHANGED <<batchVars, streamVars, registryVars, dbVars>>

InitFilter ==
  /\ fTags \in TagConfigs
  /\ fText \in TextsUpTo(MaxPieces)
  /\ fRest = fText
  /\ tf = NewTagFilter
  /\ fOut = <<>> /\ fFlushed = <<>>
  /\ fOnlyFilter = TRUE
  /\ fCalls = 0
  /\ TaskInit(0) /\ PoolIdle /\ StreamIdle /\ RegistryIdle /\ DbIdle

NextFilter ==
  \/ CallFilter
  \/ CallFlush
  \/ CallReset

SpecFilter == InitFilter /\ [][NextFilter]_vars

\* the same calls on every text of up to MaxChars of these characters
Chars == {"a", "<", "t", ">", "/"}
CharTexts(n) == UNION {[1 .. k -> Chars] : k \in 0 .. n}

InitTokens ==
  /\ fTags \in TagConfigs
  /\ fText \in CharTexts(MaxChars)
  /\ fRest = fText
  /\ tf = NewTagFilter
  /\ fOut = <<>> /\ fFlushed = <<>>
  /\ fOnlyFilter = TRUE
  /\ fCalls = 0
  /\ TaskInit(0) /\ PoolIdle /\ StreamIdle /\ RegistryIdle /\ DbIdle

NextTokens ==
  \/ CallFilter
  \/ CallFlush
  \/ CallReset

SpecTokens == InitTokens /\ [][NextTokens]_vars

\* ------------------------------------------------------------------------
\* settings.ts: getSettings and saveSettings on the settings table
\* ------------------------------------------------------------------------
\* String.prototype.trim, on texts whose only white space is " "
RECURSIVE trimStart(_)
trimStart(str) == IF str # <<>> /\ Head(str) = " " THEN trimStart(Tail(str)) ELSE str
RECURSIVE trimEnd(_)
trimEnd(str) ==
  IF str # <<>> /\ str[Len(str)] = " " THEN trimEnd(SubSeq(str, 1, Len(str) - 1)) ELSE str
trim(str) == trimEnd(trimStart(str))

\* the text "cf_clearance=" is one element of a modelled string
CfPrefix == "cf_clearance="

\* stripCfPrefix(value)
stripCfPrefix(value) ==
  LET trimmed == trim(value)
  IN IF trimmed = <<>> THEN <<>>
     ELSE IF Head(trimmed) = CfPrefix THEN Tail(trimmed)
     ELSE trimmed

IMAGE_METHOD_LEGACY == <<"legacy">>
IMAGE_METHOD_IMAGINE_WS_EXPERIMENTAL == <<"imagine_ws_experimental">>
\* the own keys of IMAGE_METHOD_ALIASES
IMAGE_METHOD_ALIASES ==
  {<<"imagine_ws">>, <<"experimental">>, <<"n", "e", "w">>, <<"new_method">>}
\* String(value ?? "")
StringOrEmpty(value) ==
  IF IsNullish(value) THEN <<>>
  ELSE IF value.t = "string" THEN value.v
  ELSE <<"function Object() { [native code] }">>

\* normalizeImageGenerationMethod(value); IMAGE_METHOD_ALIASES[candidate] is
\* also truthy for a name Object.prototype has, such as "constructor"
normalizeImageGenerationMethod(value) ==
  LET candidate == toLowerCase(trim(StringOrEmpty(value)))
  IN IF candidate = IMAGE_METHOD_IMAGINE_WS_EXPERIMENTAL
       THEN Str(IMAGE_METHOD_IMAGINE_WS_EXPERIMENTAL)
     ELSE IF candidate \in IMAGE_METHOD_ALIASES
       THEN Str(IMAGE_METHOD_IMAGINE_WS_EXPERIMENTAL)
     ELSE IF candidate = <<"constructor">> THEN FunctionValue
     ELSE Str(IMAGE_METHOD_LEGACY)

\* getSettings(env) on the rows of the table
getSettings(table) ==
  LET globalCfg == IF table.global.present THEN safeParseJson(table.global.value)
                   ELSE SettingsDefaults.global
      grokCfg == IF table.grok.present THEN safeParseJson(table.grok.value)
                 ELSE SettingsDefaults.grok
      merged == [Spread(SettingsDefaults.grok, grokCfg) EXCEPT
                   !.cf_clearance = Str(stripCfPrefix(StringOrEmpty(grokCfg.cf_clearance)))]
      mergedGrok == [merged EXCEPT !.image_generation_method =
                       normalizeImageGenerationMethod(merged.image_generation_method)]
  IN [global |-> Spread(SettingsDefaults.global, globalCfg), grok |-> mergedGrok]

\* the rows saveSettings(env, updates) writes at time now
WrittenSettings(current, updates, now) ==
  LET nextGlobal == Spread(current.global, updates.global_config)
      cf == IF ~IsNullish(updates.grok_config.cf_clearance)
              THEN updates.grok_config.cf_clearance
              ELSE current.grok.cf_clearance
      next == [Spread(current.grok, updates.grok_config) EXCEPT
                 !.cf_clearance = Str(stripCfPrefix(StringOrEmpty(cf)))]
      nextGrok == [next EXCEPT !.image_generation_method =
                     normalizeImageGenerationMethod(next.image_generation_method)]
  IN [global |-> [present |-> TRUE, value |-> JSONstringify(nextGlobal), updated_at |-> now],
      grok |-> [present |-> TRUE, value |-> JSONstringify(nextGrok), updated_at |-> now]]

\* saveSettings(env, updates) run without interruption on the stored table
SavedSettings(table, updates, now) == WrittenSettings(getSettings(table), updates, now)

\* saveSettings called with the sections of a bundle
BundleAsUpdates(bundle) == [global_config |-> bundle.global, grok_config |-> bundle.grok]

\* texts given for cf_clearance: up to MaxLayers prefixes, with and without blanks
RECURSIVE Layers(_)
Layers(n) == IF n = 0 THEN <<>> ELSE <<CfPrefix>> \o Layers(n - 1)
CfInputs ==
  {<<>>, <<" ", CfPrefix, "x", " ">>, <<CfPrefix, " ", "x">>}
    \cup {Layers(n) \o <<"x">> : n \in 0 .. MaxLayers}
MethodInputs ==
  {<<"legacy">>, <<"imagine_ws_experimental">>, <<"n", "e", "w">>,
   <<" ", "N", "E", "W", " ">>, <<"constructor">>, <<"o">>}
UpdateArgs ==
  {[global_config |-> g, grok_config |-> k] :
     g \in {EmptyGlobal, [log_level |-> Str(<<"DEBUG">>)], [log_level |-> UndefinedField]},
     k \in {[cf_clearance |-> c, image_generation_method |-> m, show_thinking |-> st] :
              c \in {AbsentField} \cup {Str(x) : x \in CfInputs},
              m \in {AbsentField, UndefinedField} \cup {Str(x) : x \in MethodInputs},
              st \in {AbsentField, Bool(FALSE)}}}

UnchangedByDb == UNCHANGED <<batchVars, streamVars, filterVars, registryVars>>

\* saveSettings(env, updates), with updates of the caller's or with the bundle
\* getSettings has just returned
SaveSettings ==
  /\ \E updates \in UpdateArgs \cup {BundleAsUpdates(getSettings(settingsTable))} :
       /\ settingsTable' = SavedSettings(settingsTable, updates, dbNow)
       /\ dbCall' = [op |-> "saveSettings"]
  /\ UNCHANGED <<dbNow, progressRow, requestLogs>>
  /\ UNCHANGED inflight
  /\ UnchangedByDb

\* time passes
DbTick ==
  /\ dbNow < MaxNow
  /\ dbNow' = dbNow + 1
  /\ UNCHANGED <<dbCall, settingsTable, progressRow, requestLogs>>
  /\ UNCHANGED inflight
  /\ UnchangedByDb

InitSettings == InitRegistry

NextSettings ==
  \/ SaveSettings
  \/ DbTick

SpecSettings == InitSettings /\ [][NextSettings]_vars

\* ------------------------------------------------------------------------
\* saveSettings calls that overlap: each call is cut at its two awaits
\* ------------------------------------------------------------------------
\* updates that touch one section each
SectionUpdates ==
  {[global_config |-> [log_level |-> Str(<<"DEBUG">>)], grok_config |-> EmptyGrok],
   [global_config |-> EmptyGlobal, grok_config |-> [EmptyGrok EXCEPT !.show_thinking = Bool(FALSE)]],
   [global_config |-> EmptyGlobal, grok_config |-> [EmptyGrok EXCEPT !.cf_clearance = Str(<<"x">>)]]}

\* the callers whose call has completed
Completed == {c \in Callers : inflight[c].pc = "done"}

\* const now = nowMs(); getSettings(env) is called
SaveCall(c) ==
  /\ inflight[c].pc = "idle"
  /\ \E updates \in SectionUpdates :
       inflight' = [inflight EXCEPT ![c] = [pc |-> "called", updates |-> updates, now |-> dbNow]]
  /\ UNCHANGED <<dbNow, dbCall, settingsTable, progressRow, requestLogs>>
  /\ UnchangedByDb

\* the SELECT of getSettings runs: current is the bundle as stored now
SaveRead(c) ==
  /\ inflight[c].pc = "called"
  /\ inflight' = [inflight EXCEPT ![c] =
        [pc |-> "read", updates |-> inflight[c].updates, now |-> inflight[c].now,
         current |-> getSettings(settingsTable), after |-> Completed]]
  /\ UNCHANGED <<dbNow, dbCall, settingsTable, progressRow, requestLogs>>
  /\ UnchangedByDb

\* env.DB.batch(stmts) runs: every section is written from current and updates
SaveWrite(c) ==
  /\ inflight[c].pc = "read"
  /\ settingsTable' = WrittenSettings(inflight[c].current, inflight[c].updates, inflight[c].now)
  /\ inflight' = [inflight EXCEPT ![c] =
        [pc |-> "done", updates |-> inflight[c].updates, after |-> inflight[c].after]]
  /\ dbCall' = [op |-> "saveSettings"]
  /\ UNCHANGED <<dbNow, progressRow, requestLogs>>
  /\ UnchangedByDb

\* the clock of the overlapping calls
CallersTick ==
  /\ dbNow < MaxNow
  /\ dbNow' = dbNow + 1
  /\ UNCHANGED <<dbCall, settingsTable, progressRow, requestLogs, inflight>>
  /\ UnchangedByDb

InitSaves == InitRegistry

NextSaves ==
  \/ \E c \in Callers : SaveCall(c)
  \/ \E c \in Callers : SaveRead(c)
  \/ \E c \in Callers : SaveWrite(c)
  \/ CallersTick

SpecSaves == InitSaves /\ [][NextSaves]_vars

\* ------------------------------------------------------------------------
\* repo/refreshProgress.ts: the row id = 1 of token_refresh_progress
\* ------------------------------------------------------------------------
Num(n) == [t |-> "number", v |-> n]
SqlNull == [t |-> "null"]
\* COALESCE(a, b) with b a stored value
COALESCE(a, b) == IF a = SqlNull THEN b ELSE a.v

\* the values bound to the statement: p.f !== undefined ? p.f : null
BoundParams(p) ==
  [running |-> IF ~IsNullish(p.running) THEN Num(IF p.running.v THEN 1 ELSE 0) ELSE SqlNull,
   current |-> IF ~IsNullish(p.current) THEN p.current ELSE SqlNull,
   total |-> IF ~IsNullish(p.total) THEN p.total ELSE SqlNull,
   success |-> IF ~IsNullish(p.success) THEN p.success ELSE SqlNull,
   failed |-> IF ~IsNullish(p.failed) THEN p.failed ELSE SqlNull]

\* the statement as INSERT OR REPLACE: absent fields are set to 0
UpsertedProgress_replaces(row, p, now) ==
  LET b == BoundParams(p)
  IN [present |-> TRUE,
      running |-> COALESCE(b.running, 0), current |-> COALESCE(b.current, 0),
      total |-> COALESCE(b.total, 0), success |-> COALESCE(b.success, 0),
      failed |-> COALESCE(b.failed, 0), updated_at |-> now]

\* INSERT ... VALUES(1, COALESCE(?, 0), ...) ON CONFLICT(id) DO UPDATE SET
\* f = COALESCE(?, token_refresh_progress.f), updated_at = ?
UpsertedProgress(row, p, now) ==
  LET b == BoundParams(p)
  IN IF ~row.present
       THEN [present |-> TRUE,
             running |-> COALESCE(b.running, 0), current |-> COALESCE(b.current, 0),
             total |-> COALESCE(b.total, 0), success |-> COALESCE(b.success, 0),
             failed |-> COALESCE(b.failed, 0), updated_at |-> now]
       ELSE [present |-> TRUE,
             running |-> COALESCE(b.running, row.running),
             current |-> COALESCE(b.current, row.current),
             total |-> COALESCE(b.total, row.total),
             success |-> COALESCE(b.success, row.success),
             failed |-> COALESCE(b.failed, row.failed), updated_at |-> now]

\* the Partial<RefreshProgress> objects setRefreshProgress is called with
ProgressArgs ==
  [running : {AbsentField, UndefinedField, Bool(TRUE), Bool(FALSE)},
   current : {AbsentField, Num(0), Num(2)},
   total : {AbsentField, Num(3)},
   success : {AbsentField, Num(1)},
   failed : {AbsentField, Num(1)}]

\* setRefreshProgress(db, p)
SetRefreshProgress ==
  /\ \E p \in ProgressArgs :
       /\ progressRow' = UpsertedProgress(progressRow, p, dbNow)
       /\ dbCall' = [op |-> "setRefreshProgress", arg |-> p]
  /\ UNCHANGED <<dbNow, settingsTable, requestLogs>>
  /\ UNCHANGED inflight
  /\ UnchangedByDb

\* getRefreshProgress(db): a missing row is inserted with zeros
GetRefreshProgress ==
  /\ progressRow' =
       IF progressRow.present THEN progressRow
       ELSE [present |-> TRUE, running |-> 0, current |-> 0, total |-> 0,
             success |-> 0, failed |-> 0, updated_at |-> dbNow]
  /\ dbCall' = [op |-> "getRefreshProgress"]
  /\ UNCHANGED <<dbNow, settingsTable, requestLogs>>
  /\ UNCHANGED inflight
  /\ UnchangedByDb

InitProgress == InitRegistry

NextProgress ==
  \/ SetRefreshProgress
  \/ GetRefreshProgress
  \/ DbTick

SpecProgress == InitProgress /\ [][NextProgress]_vars

\* ------------------------------------------------------------------------
\* getRefreshProgress and setRefreshProgress calls that overlap:
\* getRefreshProgress is cut between its SELECT and its INSERT OR REPLACE
\* ------------------------------------------------------------------------
ZeroProgressRow(now) ==
  [present |-> TRUE, running |-> 0, current |-> 0, total |-> 0,
   success |-> 0, failed |-> 0, updated_at |-> now]

\* objects that give every field
FullProgressArgs ==
  [running : {Bool(TRUE)}, current : {Num(1), Num(2)}, total : {Num(3)},
   success : {Num(1)}, failed : {Num(0), Num(1)}]

\* setRefreshProgress(db, p): one statement
CallerSets(c) ==
  /\ inflight[c].pc = "idle"
  /\ \E p \in FullProgressArgs :
       /\ progressRow' = UpsertedProgress(progressRow, p, dbNow)
       /\ inflight' = [inflight EXCEPT ![c] =
             [pc |-> "done", op |-> "set", wrote |-> UpsertedProgress(progressRow, p, dbNow),
              after |-> Completed]]
  /\ dbCall' = [op |-> "setRefreshProgress"]
  /\ UNCHANGED <<dbNow, settingsTable, requestLogs>>
  /\ UnchangedByDb

\* getRefreshProgress(db): the SELECT runs; with a row the call returns it,
\* without one it goes on to the INSERT OR REPLACE once the await returns
GetSelects(c) ==
  /\ inflight[c].pc = "idle"
  /\ inflight' = [inflight EXCEPT ![c] =
        IF progressRow.present
          THEN [pc |-> "done", op |-> "get", inserted |-> FALSE, after |-> Completed]
          ELSE [pc |-> "insert", op |-> "get", at |-> dbNow]]
  /\ dbCall' = [op |-> "getRefreshProgress"]
  /\ UNCHANGED <<dbNow, settingsTable, progressRow, requestLogs>>
  /\ UnchangedByDb

\* the INSERT OR REPLACE of getRefreshProgress runs, with the now = nowMs()
\* taken between the return of the SELECT and the statement
GetInserts(c) ==
  /\ inflight[c].pc = "insert"
  /\ \E now \in inflight[c].at .. dbNow : progressRow' = ZeroProgressRow(now)
  /\ inflight' = [inflight EXCEPT ![c] =
        [pc |-> "done", op |-> "get", inserted |-> TRUE, after |-> Completed]]
  /\ UNCHANGED <<dbNow, dbCall, settingsTable, requestLogs>>
  /\ UnchangedByDb

InitProgressCalls == InitRegistry

NextProgressCalls ==
  \/ \E c \in Callers : CallerSets(c)
  \/ \E c \in Callers : GetSelects(c)
  \/ \E c \in Callers : GetInserts(c)
  \/ CallersTick

SpecProgressCalls == InitProgressCalls /\ [][NextProgressCalls]_vars

\* ------------------------------------------------------------------------
\* repo/logs.ts: request_logs and getRequestStats. Time is counted in ticks
\* of half an hour.
\* ------------------------------------------------------------------------
HourMs == 2
DayMs == 24 * HourMs
\* the latest time the clock is moved to
MaxLogTime == 15 * DayMs + MaxNow

\* status >= 200 && status < 400
isSuccessStatus(st) == st >= 200 /\ st < 400

\* toIsoHourKey(ts): "y-m-d h" in UTC names the hour ts lies in, here by its
\* number since the epoch; toIsoDateKey(ts) names the day likewise
toIsoHourKey(ts) == ts \div HourMs
toIsoDateKey(ts) == ts \div DayMs
\* String(new Date(ts).getUTCHours()).padStart(2, "0") + ":00"
HourLabel(ts) ==
  LET h == (ts \div HourMs) % 24
  IN (IF h < 10 THEN "0" ELSE "") \o ToString(h) \o ":00"

\* how many of the rows satisfy a test
CountRows(rows, Test(_)) == Cardinality({i \in 1 .. Len(rows) : Test(rows[i])})

\* Math.round(success / total * 1000) / 10, in tenths of a percent
SuccessRateTenths(success, sum) ==
  IF sum > 0 THEN (2 * success * 1000 + sum) \div (2 * sum) ELSE 0

\* getRequestStats(db) at time now; the models (at most 8 in the code) are
\* given without their order
getRequestStats(logs, now) ==
  LET since24h == now - 24 * HourMs
      since14d == now - 14 * DayMs
      since7d == now - 7 * DayMs
      last14 == SelectSeq(logs, LAMBDA r : r.timestamp >= since14d)
      InHour(key, good) ==
        CountRows(last14, LAMBDA r : /\ r.timestamp >= since24h
                                     /\ toIsoHourKey(r.timestamp) = key
                                     /\ isSuccessStatus(r.status) = good)
      InDay(key, good) ==
        CountRows(last14, LAMBDA r : /\ toIsoDateKey(r.timestamp) = key
                                     /\ isSuccessStatus(r.status) = good)
      success == CountRows(last14, LAMBDA r : r.timestamp >= since24h
                                              /\ isSuccessStatus(r.status))
      failed == CountRows(last14, LAMBDA r : r.timestamp >= since24h
                                             /\ ~isSuccessStatus(r.status))
      startHour == now - 23 * HourMs
      startDay == now - 13 * DayMs
      modelNames == {logs[i].model : i \in {j \in 1 .. Len(logs) : logs[j].timestamp >= since7d}}
  IN [hourly |-> [i \in 1 .. 24 |->
                    LET ts == startHour + (i - 1) * HourMs
                    IN [hour |-> HourLabel(ts),
                        success |-> InHour(toIsoHourKey(ts), TRUE),
                        failed |-> InHour(toIsoHourKey(ts), FALSE)]],
      daily |-> [i \in 1 .. 14 |->
                   LET ts == startDay + (i - 1) * DayMs
                   IN [date |-> toIsoDateKey(ts),
                       success |-> InDay(toIsoDateKey(ts), TRUE),
                       failed |-> InDay(toIsoDateKey(ts), FALSE)]],
      models |-> {[model |-> m,
                   count |-> CountRows(logs, LAMBDA r : r.timestamp >= since7d /\ r.model = m)] :
                    m \in modelNames},
      summary |-> [total |-> success + failed, success |-> success, failed |-> failed,
                   success_rate |-> SuccessRateTenths(success, success + failed)]]

\* addRequestLog(db, entry): the row gets the time of the call
AddRequestLog ==
  /\ Len(requestLogs) < MaxLogs
  /\ \E st \in {200, 400} :
       requestLogs' = Append(requestLogs, [timestamp |-> dbNow, status |-> st, model |-> "m"])
  /\ dbCall' = [op |-> "addRequestLog"]
  /\ UNCHANGED <<dbNow, settingsTable, progressRow>>
  /\ UNCHANGED inflight
  /\ UnchangedByDb

\* clearRequestLogs(db)
ClearRequestLogs ==
  /\ requestLogs # <<>>
  /\ requestLogs' = <<>>
  /\ dbCall' = [op |-> "clearRequestLogs"]
  /\ UNCHANGED <<dbNow, settingsTable, progressRow>>
  /\ UNCHANGED inflight
  /\ UnchangedByDb

\* getRequestStats(db) reads only
GetRequestStats ==
  /\ dbCall' = [op |-> "getRequestStats"]
  /\ UNCHANGED <<dbNow, settingsTable, progressRow, requestLogs>>
  /\ UNCHANGED inflight
  /\ UnchangedByDb

\* a longer time passes: within the first day a day but a half hour or a
\* day, at any time two weeks
LogsWait ==
  /\ \E d \in {DayMs - 1, DayMs, 14 * DayMs} :
       /\ d < 14 * DayMs => dbNow < DayMs
       /\ dbNow + d <= MaxLogTime
       /\ dbNow' = dbNow + d
  /\ UNCHANGED <<dbCall, settingsTable, progressRow, requestLogs>>
  /\ UNCHANGED inflight
  /\ UnchangedByDb

InitLogs == InitRegistry

NextLogs ==
  \/ AddRequestLog
  \/ ClearRequestLogs
  \/ GetRequestStats
  \/ DbTick
  \/ LogsWait

SpecLogs == InitLogs /\ [][NextLogs]_vars

\* ========================================================================
\* Properties of the streaming transcoder
\* ========================================================================
FinishChunks(o) == {i \in 1 .. Len(o) : o[i].kind = "chunk" /\ o[i].finish_reason # Null}
DoneSentinels(o) == {i \in 1 .. Len(o) : o[i].kind = "done"}
Ended == pc \in {"returned", "rejected"}

\* C1: on every terminal path the output has exactly one chunk with a
\* non-null finish_reason and exactly one [DONE], the finish chunk comes
\* before [DONE], and nothing is emitted after [DONE].
C1_OneFinishOneDone ==
  /\ Cardinality(FinishChunks(out)) <= 1
  /\ Cardinality(DoneSentinels(out)) <= 1
  /\ \A i \in DoneSentinels(out) :
       i = Len(out) /\ \E j \in FinishChunks(out) : j < i
  /\ Ended => Cardinality(FinishChunks(out)) = 1 /\ Cardinality(DoneSentinels(out)) = 1

\* C2: onFinish is invoked exactly once per run on every terminal path, and
\* before the controller is closed.
C2_OnFinishOnce ==
  /\ Len(onFinishCalls) <= 1
  /\ (Ended \/ controller = "closed") => Len(onFinishCalls) = 1

\* C3: at most one <think> is emitted, and once the stop chunk is out every
\* emitted <think> has been followed by exactly one </think>.
RECURSIVE Flatten(_)
Flatten(o) == IF o = <<>> THEN <<>> ELSE Head(o).content \o Flatten(Tail(o))
ThinkMarks(o) == SelectSeq(Flatten(o), LAMBDA c : c \in {ThinkOpen, ThinkClose})

C3_ThinkBracketing ==
  /\ ThinkMarks(out) \in {<<>>, <<ThinkOpen>>, <<ThinkOpen, ThinkClose>>}
  /\ FinishChunks(out) # {} => ThinkMarks(out) \in {<<>>, <<ThinkOpen, ThinkClose>>}

\* C16: a parsed frame with error.message makes the transcoder emit exactly
\* one chunk "Error: " + message with finish_reason "stop", then [DONE], and
\* report status 500 to onFinish; when onFinish has returned the controller
\* is closed, and no later line or read adds output.
ErrorFrameAt == {i \in 1 .. Len(handled) : handled[i].error # ""}
ErrorChunkAt == {j \in 1 .. Len(out) :
                   out[j].content # <<>> /\ out[j].content[1] = ErrorPrefix}

C16_ErrorFrame ==
  /\ [](\A i \in ErrorFrameAt :
          /\ i = Len(handled)
          /\ paths # <<>> /\ paths[1] = "errorFrame"
          /\ onFinishCalls[1] = 500
          /\ Cardinality(ErrorChunkAt) = 1
          /\ \A j \in ErrorChunkAt :
               /\ out[j].content = <<ErrorPrefix, handled[i].error>>
               /\ out[j].finish_reason = "stop"
               /\ j < Len(out) /\ out[j + 1] = makeDone
               /\ \A k \in 1 .. j - 1 : out[k].kind = "chunk" /\ out[k].finish_reason = Null
               /\ Len(paths) = 1 =>
                    /\ Len(out) = j + 1
                    /\ onFinishCalls = <<500>>
                    /\ pc \in {"onFinish", "returned"}
                    /\ pc = "returned" => controller = "closed")
  /\ [][(ErrorFrameAt # {} /\ paths' = paths)
          => (out' = out /\ reads' = reads /\ handled' = handled)]_vars

C16_Witness ==
  /\ ErrorFrameAt # {}
  /\ pc = "returned"
  /\ paths = <<"errorFrame">>
  /\ linesLeft >= 1
  /\ Len(out) >= 3

\* C17: what the catch block does with the value it caught: an idle timeout
\* gives the stop chunk and the status so far; otherwise a value whose text
\* contains "http/2", "curl: (92)" or "stream" in any case gives the stop
\* chunk and status 502; otherwise one chunk with the processing-error text
\* and the message, finish_reason "error", and status 500. An idle timeout
\* is never reported as 502.
Http2Texts ==
  {<<"H", "T", "T", "P", "/", "2">>,
   <<"c", "u", "r", "l", ":", " ", "(", "9", "2", ")">>,
   <<"u", "p", "S", "T", "R", "E", "A", "M">>}
LastOf(q) == q[Len(q)]

C17_CatchClassification ==
  [][caught' # caught =>
       LET e == LastOf(caught')
           st == LastOf(onFinishCalls')
           stop == <<makeChunk(loc'.currentModel, <<>>, "stop"), makeDone>>
       IN /\ caught = <<>>
          /\ Len(onFinishCalls') = Len(onFinishCalls) + 1
          /\ IF e = StreamIdleTimeoutError
               THEN out' = out \o stop /\ st = loc.finalStatus /\ st # 502
             ELSE IF e.message \in Http2Texts
               THEN out' = out \o stop /\ st = 502
             ELSE /\ out' = out \o
                       <<makeChunk(loc'.currentModel,
                                   <<ProcessingErrorPrefix>> \o e.message, "error"),
                         makeDone>>
                  /\ st = 500]_vars

C17_Witness ==
  /\ caught = <<StreamIdleTimeoutError>>
  /\ onFinishCalls = <<200>>
  /\ pc = "returned"
  /\ Len(out) >= 3

\* C18: when the first-response, total or chunk deadline fires, at the check
\* at the top of the loop or as the timer of the read, the transcoder emits
\* only the empty stop chunk and [DONE], reports the status unchanged to
\* onFinish and, once onFinish has returned, is closed; the first-response
\* deadline applies only before a frame was parsed, the chunk deadline only
\* after, and a total budget of 0 disables the total deadline.
DeadlinePaths == {"first", "total", "chunk", "readTimeout"}
ErrorChunks(o) == {j \in 1 .. Len(o) :
                     \/ o[j].finish_reason = "error"
                     \/ (o[j].content # <<>>
                           /\ o[j].content[1] \in {ErrorPrefix, ProcessingErrorPrefix})}

C18_DeadlineCleanStop ==
  /\ [][(paths' # paths /\ LastOf(paths') \in DeadlinePaths) =>
          LET label == LastOf(paths')
              idle == clock' - loc.lastChunkTime
              own == IF loc.firstReceived THEN settings.chunk ELSE settings.first
          IN /\ out' = out \o <<makeChunk(loc.currentModel, <<>>, "stop"), makeDone>>
             /\ onFinishCalls' = Append(onFinishCalls, loc.finalStatus)
             /\ caught' = caught /\ loc' = loc
             /\ label = "first" => ~loc.firstReceived /\ clock' > settings.first
             /\ label = "chunk" => loc.firstReceived /\ idle > settings.chunk
             /\ label = "total" => settings.total > 0 /\ clock' > settings.total
             /\ label = "readTimeout" =>
                  /\ clock' - clock <= own
                  /\ settings.total = 0 => clock' - clock = own
                  /\ clock' - clock < own =>
                       (settings.total > 0 /\ clock' >= settings.total)]_vars
  /\ []((Len(paths) = 1 /\ paths[1] \in DeadlinePaths) =>
          /\ ErrorChunks(out) = {}
          /\ Cardinality(FinishChunks(out)) = 1
          /\ onFinishCalls = <<200>>
          /\ pc \in {"onFinish", "returned"}
          /\ pc = "returned" => controller = "closed")

C18_Witness ==
  /\ paths = <<"chunk">>
  /\ pc = "returned"
  /\ loc.firstReceived
  /\ settings.total = 0
  /\ clock > settings.chunk

\* C19: once a frame with streamingVideoGenerationResponse has been handled
\* the idle budget is videoIdle instead of idle: the idle timeout is raised
\* only after a gap longer than the effective budget and never when that
\* budget is 0; when it is raised the stream ends with the stop chunk and
\* [DONE], no error chunk, and status 200.
VideoHandled ==
  \E i \in 1 .. Len(handled) :
    /\ handled[i].json /\ ~handled[i].isNull /\ handled[i].error = ""
    /\ handled[i].response /\ handled[i].video
EffectiveIdle == IF VideoHandled THEN settings.videoIdle ELSE settings.idle

C19_VideoIdleBudget ==
  /\ [][(paths' # paths /\ LastOf(paths') = "idle") =>
          /\ loc.firstReceived
          /\ EffectiveIdle > 0
          /\ clock' - loc.lastChunkTime > EffectiveIdle
          /\ out' = out \o <<makeChunk(loc.currentModel, <<>>, "stop"), makeDone>>
          /\ onFinishCalls' = Append(onFinishCalls, 200)
          /\ caught' = <<StreamIdleTimeoutError>>]_vars
  /\ []((Len(paths) = 1 /\ paths[1] = "idle") =>
          /\ ErrorChunks(out) = {}
          /\ Cardinality(FinishChunks(out)) = 1
          /\ onFinishCalls = <<200>>
          /\ pc = "returned" => controller = "closed")

C19_Witness ==
  /\ VideoHandled
  /\ pc = "read"
  /\ paths = <<>>
  /\ settings.idle > 0
  /\ clock - loc.lastChunkTime > settings.idle
  /\ clock - loc.lastChunkTime <= settings.videoIdle

\* C20: after the first frame, when a stream ends at a moment at which the
\* upstream has delivered no frame for longer than the effective idle budget
\* (and the total deadline has not passed), it ends through the idle-timeout
\* path, also when the stall is a read that does not complete.
C20_StallEndsByIdlePath ==
  [][(/\ paths' # paths
      /\ pc \in {"loop", "read"}
      /\ LastOf(paths') \notin {"eof", "catch", "http2"}
      /\ loc.firstReceived
      /\ EffectiveIdle > 0
      /\ clock' - loc.lastChunkTime > EffectiveIdle
      /\ (settings.total = 0 \/ clock' <= settings.total))
     => LastOf(paths') = "idle"]_vars

\* C21: on every termination path that acquired the upstream reader, an
\* exception thrown by onFinish included, the reader lock is released and
\* the output controller is closed when start has ended.
C21_ReleasedAndClosed ==
  (Ended /\ readerLock # "none") =>
    readerLock = "released" /\ controller = "closed"

\* C22: in text mode, for thinking frames followed by non-thinking frames
\* and then EOF, the concatenated deltas are "<think>\n" + the thinking
\* tokens + "\n</think>\n" + the answer tokens with show_thinking, and
\* exactly the answer tokens without it.
PlainToken(fr, thinking) ==
  /\ fr.json /\ ~fr.isNull /\ fr.error = "" /\ fr.response
  /\ ~fr.video /\ ~fr.imageAttachmentInfo /\ fr.modelResponse = "none"
  /\ fr.tokenType = "string" /\ fr.messageTag = "" /\ ~fr.search
  /\ fr.isThinking = thinking
ThinkingThenAnswer(k) ==
  /\ settings.filtered_tags = <<>>
  /\ k >= 1 /\ k < Len(handled)
  /\ \A i \in 1 .. Len(handled) : PlainToken(handled[i], i <= k)
RECURSIVE TokensOf(_)
TokensOf(frs) == IF frs = <<>> THEN <<>> ELSE Head(frs).token \o TokensOf(Tail(frs))
ReachedEof == Len(paths) = 1 /\ paths[1] = "eof"

C22_ThinkingDeltas ==
  \A k \in 1 .. MaxFrames :
    (ReachedEof /\ ThinkingThenAnswer(k)) =>
      LET thinking == TokensOf(SubSeq(handled, 1, k))
          answer == TokensOf(SubSeq(handled, k + 1, Len(handled)))
      IN Flatten(out) =
           IF settings.show_thinking
             THEN <<ThinkOpen, NL>> \o thinking \o <<NL, ThinkClose, NL>> \o answer
             ELSE answer

C22_Witness ==
  /\ ReachedEof
  /\ pc = "returned"
  /\ ~settings.show_thinking
  /\ ThinkingThenAnswer(2)
  /\ TokensOf(<<handled[1]>>) # TokensOf(<<handled[3]>>)

\* C23: with show_thinking, a video frame emits a progress line only when
\* its progress exceeds every earlier progress; the first line emitted
\* starts with <think>, later lines below 100 are plain, the line for
\* progress 100 ends with </think>, so the video snippet of a frame with
\* videoUrl follows a closed thinking region; a video frame never closes
\* the stream.
IsVideoFrame(fr) ==
  fr.json /\ ~fr.isNull /\ fr.error = "" /\ fr.response /\ fr.video
Has(content, c) == \E i \in 1 .. Len(content) : content[i] = c
ProgressLines(o) == SelectSeq(o, LAMBDA ch : Has(ch.content, VideoProgressText))
VideoSnippets(o) == SelectSeq(o, LAMBDA ch : ch.content = <<VideoHtml>>)
EarlierProgress == {handled[i].progress : i \in {j \in 1 .. Len(handled) : IsVideoFrame(handled[j])}}

VideoStepLines(fr, new) ==
  /\ Len(ProgressLines(new)) <= 1
  /\ ProgressLines(new) # <<>> =>
       /\ \A p \in EarlierProgress : fr.progress > p
       /\ Has(ProgressLines(new)[1].content, ToString(fr.progress))
       /\ Has(ProgressLines(new)[1].content, ThinkOpen) <=> ProgressLines(out) = <<>>
VideoStepCloses(fr, new) ==
  ProgressLines(new) # <<>> =>
    (Has(ProgressLines(new)[1].content, ThinkClose) <=> fr.progress = 100)
VideoStepSnippet(fr, new) ==
  /\ Len(VideoSnippets(new)) = (IF fr.videoUrl # "" THEN 1 ELSE 0)
  /\ VideoSnippets(new) # <<>> =>
       ThinkMarks(out \o new) \in {<<>>, <<ThinkOpen, ThinkClose>>}
VideoStepGoesOn ==
  /\ paths' = paths
  /\ pc' \in {"lines", "loop"}
  /\ controller' = controller

C23_VideoProgress ==
  [][\A fr \in FramesOf(upstream) :
       (handled' = Append(handled, fr) /\ IsVideoFrame(fr) /\ settings.show_thinking) =>
         LET new == SubSeq(out', Len(out) + 1, Len(out'))
         IN /\ out' = out \o new
            /\ VideoStepLines(fr, new)
            /\ VideoStepCloses(fr, new)
            /\ VideoStepSnippet(fr, new)
            /\ VideoStepGoesOn]_vars

\* C24: a task made by createTask is returned by getTask, with its
\* finalEvent once terminated, until a timer of expireTask for its id has
\* fired; after that getTask returns undefined; finish, failTask and
\* finishCancelled leave the registry as it is.
CreatedIds == {TaskIdOf[k] : k \in 1 .. created}

C24_RetainedUntilExpired ==
  /\ [](\A id \in CreatedIds :
          /\ id \notin fired => getTask(id) = id
          /\ id \in fired => getTask(id) = Undefined)
  /\ []((getTask(TaskIdOf[1]) = TaskIdOf[1] /\ status # "running") =>
          finalEvent # NullEvent
            /\ finalEvent.type = (IF status = "done" THEN "done" ELSE status))
  /\ [][status' # status => registry' = registry]_vars

C24_Witness ==
  /\ status # "running"
  /\ getTask(TaskIdOf[1]) = TaskIdOf[1]
  /\ timers[TaskIdOf[1]] > 0
  /\ TaskIdOf[2] \in fired
  /\ getTask(TaskIdOf[2]) = Undefined

\* C25: when a subscriber callback throws during publish, the exception
\* does not reach the caller, every other subscriber still receives the
\* event, and counters, status and finalEvent are what the call gives
\* without a throwing callback.
StatusAfter(ev) ==
  IF ev.type = "progress" THEN status ELSE ev.type
C25_ThrowingCallback ==
  /\ [](~escaped)
  /\ [][(published' # published /\ callbacks \cap Throwers # {}) =>
          LET ev == published'[Len(published')]
          IN /\ \A u \in AllSubs \cap callbacks : received'[u] = Append(received[u], ev)
             /\ \A s \in Streams \cap callbacks :
                  streamState[s] = "readable" => written'[s] = Append(written[s], ev)
             /\ processed' = ev.processed /\ ok' = ev.ok /\ fail' = ev.fail
             /\ processed' = processed + (IF ev.type = "progress" THEN 1 ELSE 0)
             /\ ok' + fail' = processed'
             /\ status' = StatusAfter(ev)
             /\ finalEvent' = (IF IsTerminal(ev) THEN ev ELSE finalEvent)]_vars

C25_Witness ==
  /\ ~escaped
  /\ finalEvent # NullEvent
  /\ \E t \in Throwers, u \in Subs, s \in Streams :
       /\ {t, u} \subseteq callbacks
       /\ Len(received[t]) >= 2
       /\ received[t][Len(received[t])] = finalEvent
       /\ received[u] # <<>> /\ received[u][Len(received[u])] = finalEvent
       /\ written[s] # <<>> /\ written[s][Len(written[s])] = finalEvent

\* C26: cancel() only sets the cancelled flag: status, counters, finalEvent
\* and the subscriber set stay as they are and no event is published;
\* status becomes cancelled only in the step of finishCancelled, which
\* publishes the cancelled event.
C26_CancelOnlySetsFlag ==
  /\ [][cancelled' # cancelled =>
          /\ cancelled'
          /\ UNCHANGED <<status, total, processed, ok, fail, finalEvent, callbacks,
                         warning, result, error>>
          /\ UNCHANGED <<published, received, written, streamState>>]_vars
  /\ [][(status' = "cancelled" /\ status # "cancelled") =>
          /\ published' = Append(published, finalEvent')
          /\ finalEvent'.type = "cancelled"
          /\ cancelled' = cancelled]_vars
  /\ [](status = "cancelled" =>
          \E i \in 1 .. Len(published) : published[i].type = "cancelled")

C26_Witness ==
  /\ cancelled
  /\ status = "running"
  /\ finalEvent = NullEvent
  /\ processed >= 1
  /\ callbacks # {}

\* C27: for every stored settings state, saveSettings called with the
\* bundle getSettings returns leaves a state from which getSettings returns
\* the same bundle.
C27_SettingsRoundTrip ==
  LET bundle == getSettings(settingsTable)
  IN getSettings(SavedSettings(settingsTable, BundleAsUpdates(bundle), dbNow)) = bundle

\* C28: every setRefreshProgress(p) sets updated_at to the current time
\* and, for running, current, total, success and failed, writes the given
\* value when p has one and keeps the stored value otherwise (0 when there
\* was no row).
StoredBefore(f) == IF progressRow.present THEN progressRow[f] ELSE 0
C28_ProgressCoalesce ==
  [][(dbCall'.op = "setRefreshProgress" /\ <<dbCall, progressRow>>' # <<dbCall, progressRow>>) =>
      LET p == dbCall'.arg
      IN /\ progressRow'.present
         /\ progressRow'.updated_at = dbNow
         /\ \A f \in {"current", "total", "success", "failed"} :
              progressRow'[f] = (IF p[f].t = "number" THEN p[f].v ELSE StoredBefore(f))
         /\ progressRow'.running =
              (IF p.running.t = "boolean" THEN (IF p.running.v THEN 1 ELSE 0)
               ELSE StoredBefore("running"))]_vars

C28_Witness ==
  /\ dbCall.op = "setRefreshProgress"
  /\ dbCall.arg.current = AbsentField
  /\ dbCall.arg.running = AbsentField
  /\ dbCall.arg.total = Num(3)
  /\ progressRow.present
  /\ progressRow.current = 2 /\ progressRow.running = 1 /\ progressRow.total = 3
  /\ progressRow.updated_at = dbNow /\ dbNow > 0

\* C30: an upstream read that is in flight is cut short only by the total
\* deadline: when the timer wins the race against reader.read(), a total
\* timeout is configured and the moment is the total deadline; the
\* first-response, idle and chunk deadlines end a stream only at the check at
\* the top of the loop.
ReadCutShort ==
  /\ pc = "read"
  /\ perRead > 0
  /\ paths' # paths
  /\ LastOf(paths') = "readTimeout"

C30_OnlyTotalCutsRead ==
  /\ [][ReadCutShort => (settings.total > 0 /\ clock' = settings.total)]_vars
  /\ [][(paths' # paths /\ LastOf(paths') \in {"first", "idle", "chunk"})
          => pc = "loop"]_vars

\* C31: in text mode, once thinkingFinished is set, a later frame with
\* isThinking = true that reaches the text branch adds no chunk, and no frame
\* of the text branch adds another <think>, whatever show_thinking is.
TextBranchFrame(fr) ==
  /\ fr.json /\ ~fr.isNull /\ fr.error = "" /\ fr.response
  /\ ~fr.video /\ ~fr.imageAttachmentInfo
ThinkOpens(o) == Len(SelectSeq(Flatten(o), LAMBDA c : c = ThinkOpen))
AfterThinkingFinished ==
  /\ pc = "lines"
  /\ handled' # handled
  /\ loc.thinkingFinished
  /\ ~loc.isImage
  /\ TextBranchFrame(LastOf(handled'))

C31_ThinkingNeverReopens ==
  [][AfterThinkingFinished =>
       /\ ThinkOpens(out') = ThinkOpens(out)
       /\ LastOf(handled').isThinking => out' = out]_vars

C31_Witness ==
  /\ Len(handled) = 3
  /\ settings.show_thinking
  /\ PlainToken(handled[1], TRUE)
  /\ PlainToken(handled[2], FALSE)
  /\ PlainToken(handled[3], TRUE)
  /\ loc.thinkingFinished
  /\ Len(out) = 2
  /\ ThinkMarks(out) = <<ThinkOpen, ThinkClose>>

\* C32: after every call of filter, flush or reset, for any configured tags
\* and any tokens, inFilterTag and a non-empty pendingPrefix never hold
\* together, and tagBuffer is empty whenever inFilterTag is false.
C32_FilterStateExclusive ==
  /\ ~(tf.inFilterTag /\ tf.pendingPrefix # <<>>)
  /\ ~tf.inFilterTag => tf.tagBuffer = <<>>

C32_Witness ==
  /\ fTags # <<>>
  /\ fOut # <<>>
  /\ tf.inFilterTag
  /\ tf.tagBuffer = OpenTag(fTags[1])
  /\ tf.pendingPrefix = <<>>

\* C35: the output of TagFilter does not depend on the token boundaries:
\* after filter has been called on the pieces of any cut of a text, the
\* filter and the concatenated results are those of one filter call on the
\* whole text, so the results followed by flush are the same string.
Consumed == SubSeq(fText, 1, Len(fText) - Len(fRest))
InOneToken == TagFilter_filter(fTags, NewTagFilter, Consumed)

C35_BoundaryIndependent ==
  (fOnlyFilter /\ fCalls >= 1) =>
    /\ tf = InOneToken.f
    /\ fOut = InOneToken.res
    /\ fOut \o TagFilter_flush(tf).res
         = InOneToken.res \o TagFilter_flush(InOneToken.f).res

C35_Witness ==
  /\ fOnlyFilter
  /\ fCalls = 3
  /\ fRest = <<>>
  /\ fText = <<"a", "<", "t", ">">>
  /\ fTags = << <<"t">> >>
  /\ fOut = <<"a">>
  /\ tf.inFilterTag

\* C36: in a text-mode run with filter tags configured, when the frames are
\* non-thinking string tokens whose concatenation contains no configured
\* open tag and the upstream ends, the concatenated delta contents are the
\* concatenation of the tokens, a pending prefix of the filter included.
AnswerTokensOnly ==
  /\ handled # <<>>
  /\ \A i \in 1 .. Len(handled) : PlainToken(handled[i], FALSE)
NoConfiguredOpenTag(str) ==
  \A k \in 1 .. Len(settings.filtered_tags) :
    ~Includes(str, OpenTag(settings.filtered_tags[k]))

C36_UntaggedTextDelivered ==
  (/\ ReachedEof
   /\ settings.filtered_tags # <<>>
   /\ AnswerTokensOnly
   /\ NoConfiguredOpenTag(TokensOf(handled)))
  => Flatten(out) = TokensOf(handled)

\* C37: when two saveSettings calls that update different sections overlap,
\* after both have completed the stored settings contain both updates.
TouchesGlobal(u) == u.global_config # EmptyGlobal
TouchesGrok(u) == u.grok_config # EmptyGrok
UpdateStored(u) ==
  LET stored == getSettings(settingsTable)
  IN /\ \A f \in DOMAIN u.global_config :
          u.global_config[f] # AbsentField => stored.global[f] = u.global_config[f]
     /\ \A f \in DOMAIN u.grok_config :
          u.grok_config[f] # AbsentField => stored.grok[f] = u.grok_config[f]
TwoSavesDone(a, b) ==
  /\ a # b
  /\ Completed = {a, b}
  /\ \A c \in Callers \ {a, b} : inflight[c].pc = "idle"
  /\ TouchesGlobal(inflight[a].updates) /\ ~TouchesGrok(inflight[a].updates)
  /\ TouchesGrok(inflight[b].updates) /\ ~TouchesGlobal(inflight[b].updates)

C37_ConcurrentSavesKeepBoth ==
  \A a, b \in Callers :
    TwoSavesDone(a, b) =>
      UpdateStored(inflight[a].updates) /\ UpdateStored(inflight[b].updates)

\* C38: for every interleaving of a getRefreshProgress with a
\* setRefreshProgress, after both have completed the stored fields are those
\* the setRefreshProgress wrote: getRefreshProgress never overwrites them.
ProgressFields == {"running", "current", "total", "success", "failed"}
GetAndSetDone(g, s) ==
  /\ g # s
  /\ Completed = {g, s}
  /\ \A c \in Callers \ {g, s} : inflight[c].pc = "idle"
  /\ inflight[g].op = "get"
  /\ inflight[s].op = "set"

C38_SetSurvivesGet ==
  \A g, s \in Callers :
    GetAndSetDone(g, s) =>
      \A f \in ProgressFields : progressRow[f] = inflight[s].wrote[f]

\* C29: getRequestStats returns hourly with exactly 24 entries and daily
\* with exactly 14, and success + failed summed over the hourly entries is
\* the number of rows stamped within the last 24 hours, which is
\* summary.total.
RECURSIVE SumCounts(_)
SumCounts(entries) ==
  IF entries = <<>> THEN 0
  ELSE Head(entries).success + Head(entries).failed + SumCounts(Tail(entries))
RowsOfLast24h ==
  CountRows(requestLogs, LAMBDA r : r.timestamp >= dbNow - 24 * HourMs)

C29_StatsBuckets ==
  LET res == getRequestStats(requestLogs, dbNow)
  IN /\ Len(res.hourly) = 24
     /\ Len(res.daily) = 14
     /\ res.summary.total = RowsOfLast24h
     /\ SumCounts(res.hourly) = RowsOfLast24h

\* ========================================================================
\* Properties of the batch task manager
\* ========================================================================
CountersAgree(r) == r.processed = r.ok + r.fail

\* C4: under any sequence of record, cancel, finish, failTask and
\* finishCancelled calls, processed = ok + fail in every state, and every
\* published event and every snapshot written to a stream carries counters
\* with processed = ok + fail.
C4_CountersAgree ==
  /\ processed = ok + fail
  /\ CountersAgree(snapshot)
  /\ \A i \in 1 .. Len(published) : CountersAgree(published[i])
  /\ \A s \in Streams : \A i \in 1 .. Len(written[s]) : CountersAgree(written[s][i])
  /\ \A u \in Subs : \A i \in 1 .. Len(received[u]) : CountersAgree(received[u][i])

C4_Witness ==
  /\ ok >= 1 /\ fail >= 1
  /\ \E i \in 1 .. Len(published) : IsTerminal(published[i])
  /\ \E s \in Streams : Len(written[s]) >= 2 /\ written[s][2].type = "progress"

\* C5: in every state finalEvent is set iff status is not running, and the
\* type of finalEvent equals the status.
C5_FinalEventIffTerminated ==
  /\ (finalEvent # NullEvent) <=> (status # "running")
  /\ finalEvent # NullEvent => finalEvent.type = status

C5_Witness ==
  /\ status = "error"
  /\ finalEvent.type = "error"
  /\ \E i \in 1 .. Len(published) : published[i].type = "done"

\* C6: status changes only from running to done, error or cancelled and never
\* changes again, and finalEvent, once set, never changes.
C6_TerminalIsFinal ==
  [][/\ status' # status => status = "running" /\ status' \in TerminalTypes
     /\ finalEvent # NullEvent => finalEvent' = finalEvent]_vars

\* C7: for a task created with createTask(items.length) and driven by
\* runInBatches, once status is not running processed <= total, and if the
\* task was not cancelled processed = total.
C7_ProcessedReachesTotal ==
  status # "running" =>
    /\ processed <= total
    /\ ~cancelled => processed = total

\* C8: a stream opened on a task that has already terminated writes exactly
\* init (the snapshot, with the terminal status and the counters) and then the
\* task's finalEvent, closes, and never adds a callback to the subscriber set;
\* nothing else is ever written to it.
OpenedLate(s) == streamState[s] # "unopened" /\ written[s][1].status # "running"

C8_LateSubscriber ==
  /\ [](\A s \in Streams : OpenedLate(s) =>
          /\ Len(written[s]) = 2
          /\ written[s][1].type = "init"
          /\ written[s][1].status = written[s][2].type
          /\ IsTerminal(written[s][2])
          /\ streamState[s] = "closed"
          /\ s \notin callbacks)
  /\ [][\A s \in Streams :
          (streamState[s] = "unopened" /\ streamState'[s] # "unopened"
             /\ finalEvent # NullEvent)
          => written'[s] = <<snapshot, finalEvent>>]_vars

C8_Witness ==
  \E s \in Streams :
    /\ OpenedLate(s)
    /\ written[s][1].processed >= 1
    /\ Len(published) > openedAt[s]
    /\ \E i \in 1 .. openedAt[s] : published[i].type = "progress"

\* C9: for a stream opened while the task is running, the events published
\* after opening are written in publication order up to and including the
\* first terminal event, which is the last write; from then on the stream is
\* closed and its callback is out of the subscriber set, whatever is
\* published afterwards.
SincePublished(s) == SubSeq(published, openedAt[s] + 1, Len(published))
TerminalAt(q) == {i \in 1 .. Len(q) : IsTerminal(q[i])}
FirstTerminal(q) == CHOOSE i \in TerminalAt(q) : \A j \in TerminalAt(q) : i <= j
UpToTerminal(q) == IF TerminalAt(q) = {} THEN q ELSE SubSeq(q, 1, FirstTerminal(q))
OpenedRunning(s) == streamState[s] # "unopened" /\ written[s][1].status = "running"

C9_BridgeDelivery ==
  \A s \in Streams : OpenedRunning(s) =>
    /\ written[s][1].type = "init"
    /\ Tail(written[s]) = UpToTerminal(SincePublished(s))
    /\ IF TerminalAt(SincePublished(s)) = {}
         THEN streamState[s] = "readable" /\ s \in callbacks
         ELSE streamState[s] = "closed" /\ s \notin callbacks

C9_Witness ==
  \E s \in Streams :
    /\ OpenedRunning(s)
    /\ Len(written[s]) = 3
    /\ written[s][2].type = "progress"
    /\ IsTerminal(written[s][3])
    /\ Len(SincePublished(s)) = 3
    /\ IsTerminal(SincePublished(s)[3])

\* C10: what a callback receives while it stays subscribed is a contiguous
\* run of the published events in the order record was called, so the
\* processed fields of consecutive progress events increase by exactly 1 and
\* all subscribers see the same order, also with several workers in flight.
IsRunOf(log, q) ==
  \E k \in 0 .. Len(q) : k + Len(log) <= Len(q) /\ log = SubSeq(q, k + 1, k + Len(log))
StepsByOne(log) ==
  \A i \in 1 .. Len(log) - 1 :
    (log[i].type = "progress" /\ log[i + 1].type = "progress")
      => log[i + 1].processed = log[i].processed + 1

C10_ProgressOrder ==
  /\ StepsByOne(published)
  /\ \A u \in Subs :
       /\ IsRunOf(received[u], published)
       /\ StepsByOne(received[u])
       /\ u \in callbacks =>
            received[u] = SubSeq(published, Len(published) - Len(received[u]) + 1,
                                 Len(published))
  /\ \A s \in Streams : streamState[s] # "unopened" =>
       /\ IsRunOf(Tail(written[s]), published)
       /\ StepsByOne(Tail(written[s]))

C10_Witness ==
  /\ concurrency >= 2
  /\ Len(started) >= 3
  /\ \E w \in WorkerIds : workers[w].state = "busy"
  /\ \E u \in Subs : Len(received[u]) >= 2 /\ received[u][2].type = "progress"
                       /\ received[u][1].type = "progress"
  /\ \E s \in Streams : Len(written[s]) >= 3 /\ written[s][3].type = "progress"

\* C11: during runInBatches the number of processor invocations in flight
\* never exceeds concurrency, and the number of workers started is
\* min(concurrency, items.length).
InFlight == {w \in WorkerIds : workers[w].state = "busy"}
WorkersStarted == {w \in WorkerIds : workers[w].state # "none"}

C11_BoundedConcurrency ==
  /\ Cardinality(InFlight) <= concurrency
  /\ poolState = "idle" => WorkersStarted = {}
  /\ poolState # "idle" =>
       Cardinality(WorkersStarted) = Min(concurrency, Len(items))

C11_Witness ==
  /\ Len(items) > concurrency
  /\ Cardinality(InFlight) = concurrency
  /\ concurrency >= 2
  /\ processed >= 1

\* C12: in a run in which cancel is never called, every element of items is
\* passed to processor exactly once, invocations start in list order, each
\* invocation produces exactly one record, and when runInBatches resolves
\* processed has grown by items.length.
IsPrefix(p, q) == Len(p) <= Len(q) /\ p = SubSeq(q, 1, Len(p))
RecordsOf(x) == {i \in 1 .. Len(published) :
                   published[i].type = "progress" /\ published[i].item = x}
Pending == {workers[w].item : w \in InFlight}

C12_EveryItemOnce ==
  ~cancelled =>
    /\ IsPrefix(started, items)
    /\ \A i \in 1 .. Len(started) :
         Cardinality(RecordsOf(started[i])) =
           (IF started[i] \in Pending THEN 0 ELSE 1)
    /\ poolState = "resolved" => started = items /\ processed = Len(items)

\* C13: after cancel() is called during runInBatches no worker takes another
\* item from the queue, the items still queued are never passed to processor,
\* and every invocation in flight runs to completion and is recorded: a
\* worker leaves its invocation only through record of that item, and at
\* resolution every started item has exactly one record.
C13_CancelBetweenItems ==
  /\ [][(cancelled /\ poolState = "running")
          => (started' = started /\ queue' = queue)]_vars
  /\ [][\A w \in WorkerIds :
          (workers[w].state = "busy" /\ workers'[w] # workers[w])
            => /\ processed' = processed + 1
               /\ published' = Append(published, published'[Len(published')])
               /\ published'[Len(published')].type = "progress"
               /\ published'[Len(published')].item = workers[w].item]_vars
  /\ [](poolState = "resolved" =>
          /\ InFlight = {}
          /\ \A i \in 1 .. Len(started) : Cardinality(RecordsOf(started[i])) = 1)

C13_Witness ==
  /\ cancelled
  /\ poolState = "resolved"
  /\ queue # <<>>
  /\ Len(started) >= 2
  /\ processed = Len(started)

\* C14: runInBatches calls finishCancelled at most once and only after every
\* worker has stopped and every started invocation has been recorded, so no
\* progress event follows the cancelled event; when cancelled is false at
\* drain the pool leaves status running and publishes nothing.
CancelledEvents == {i \in 1 .. Len(published) : published[i].type = "cancelled"}
AllRecorded == \A i \in 1 .. Len(started) : Cardinality(RecordsOf(started[i])) = 1

C14_FinishCancelledAfterDrain ==
  /\ [](/\ Cardinality(CancelledEvents) <= 1
        /\ \A i \in CancelledEvents : \A j \in 1 .. Len(published) :
             published[j].type = "progress" => j < i)
  /\ [][(Len(published') > Len(published)
            /\ published'[Len(published')].type = "cancelled")
          => /\ cancelled
             /\ poolState = "running" /\ poolState' = "resolved"
             /\ InFlight = {}
             /\ \A w \in WorkersStarted : workers[w].state = "done"
             /\ AllRecorded]_vars
  /\ [][(poolState = "running" /\ poolState' = "resolved" /\ ~cancelled)
          => /\ status' = "running"
             /\ finalEvent' = NullEvent
             /\ published' = published]_vars

C14_Witness ==
  /\ status = "cancelled"
  /\ published[Len(published)].type = "cancelled"
  /\ concurrency >= 2
  /\ processed >= 2
  /\ queue # <<>>

\* C33: for a bridge stream opened while the task is running, once the
\* terminal event is written to it, the processed value of its init line plus
\* the number of progress events written to it is the processed value the
\* terminal event carries: no progress event is lost or written twice.
ProgressWritten(s) == Len(SelectSeq(written[s], LAMBDA ev : ev.type = "progress"))

C33_NoProgressLost ==
  \A s \in Streams :
    (OpenedRunning(s) /\ IsTerminal(LastOf(written[s]))) =>
      written[s][1].processed + ProgressWritten(s) = LastOf(written[s]).processed

C33_Witness ==
  \E s \in Streams :
    /\ OpenedRunning(s)
    /\ written[s][1].processed >= 1
    /\ written[s][1].fail >= 1
    /\ ProgressWritten(s) >= 1
    /\ IsTerminal(LastOf(written[s]))
    /\ streamState[s] = "closed"

\* C34: when every processor invocation settles, a started runInBatches
\* resolves, for every items list, every concurrency and every moment of
\* cancel; when it has resolved no processor invocation is in flight.
C34_PoolResolves ==
  /\ (poolState = "running") ~> (poolState = "resolved")
  /\ [](poolState = "resolved" => InFlight = {})

C34_Witness ==
  /\ poolState = "resolved"
  /\ cancelled
  /\ queue # <<>>
  /\ Len(started) >= 2
  /\ processed = Len(started)
  /\ InFlight = {}

\* ========================================================================
\* Properties of TagFilter
\* ========================================================================
\* C15: when the text fed to filter, however it is cut into tokens, is
\* pre <T> body </T> post for a configured tag T, with body and post free of
\* markup and pre free of open tags, the concatenated output of filter is
\* pre followed by post, whatever characters pre ends with.
Plain(str) == \A i \in 1 .. Len(str) : str[i] \notin {"<", ">", "/"}
ConfiguredTags == {fTags[k] : k \in 1 .. Len(fTags)}
NoOpenTag(str) == \A tag \in ConfiguredTags : ~Includes(str, OpenTag(tag))

C15_TagRegionSuppressed ==
  (fRest = <<>> /\ fOnlyFilter) =>
    \A tag \in ConfiguredTags : \A n \in 0 .. Len(fText), b \in 0 .. Len(fText) :
      LET open == OpenTag(tag) \o <<">">>
          close == CloseTag(tag)
          bodyAt == n + Len(open)
          closeAt == bodyAt + b
          postAt == closeAt + Len(close)
          pre == SubSeq(fText, 1, n)
          body == SubSeq(fText, bodyAt + 1, closeAt)
          post == SubSeq(fText, postAt + 1, Len(fText))
      IN (/\ postAt <= Len(fText)
          /\ SubSeq(fText, n + 1, bodyAt) = open
          /\ SubSeq(fText, closeAt + 1, postAt) = close
          /\ Plain(body) /\ Plain(post) /\ NoOpenTag(pre))
         => fOut = pre \o post

====
